---- MODULE Spec2Model ----
(***************************************************************************)
(* A model of the wasmtime Store (crates/wasmtime/src/store.rs): the       *)
(* interrupt flag, the fuel counters, the out-of-gas handler, the fiber    *)
(* protocol behind async calls (on_fiber, FiberFuture::poll,               *)
(* FiberFuture::drop, block_on), the registration of module code, stack    *)
(* maps and signatures that instances and backtraces rely on, exercised by *)
(* the modules of crates/api/tests/traps.rs, the resource counters, and    *)
(* the lifetime of a store, its instances and the code of its modules; of  *)
(* CompiledModule (crates/jit/src/instantiate.rs): from_artifacts,         *)
(* build_code_memory and to_compilation_artifacts; and of the trampolines  *)
(* (crates/jit/src/compiler.rs): make_trampoline, its RelocSink and the    *)
(* trampoline loop of Compiler::compile; of Store::interrupt_handle, of    *)
(* several fibers sharing one store, of the Linker as exercised by         *)
(* crates/api/tests/linker.rs, and of the steps of                         *)
(* CompiledModule::instantiate.                                            *)
(* The compiled wasm code, VMInterrupts, the frame information, the        *)
(* signature registry, Instance::new, Func::call, the callers of block_on, *)
(* CodeMemory, the linking and patching of an object image, the instance   *)
(* allocators, the fiber implementation, the Linker, resolve_imports and   *)
(* InstanceHandle::new live in other crates; their steps are modelled from *)
(* the specification.                                                      *)
(***************************************************************************)
EXTENDS Integers, Sequences, FiniteSets, Bags, TLC

(***************************************************************************)
(* Bounds.  The i64/u64 of the fuel counters are scaled to FuelBits bits.  *)
(***************************************************************************)
FuelBits == 3
MaxInjections == 2
\* The usize of the resource counters is scaled to CountBits bits.
CountBits == 3

I64Max == 2 ^ (FuelBits - 1) - 1
I64Min == 0 - 2 ^ (FuelBits - 1)
U64Max == 2 ^ FuelBits - 1
UsizeMax == 2 ^ CountBits - 1

\* The u64 values handed to add_fuel / out_of_fuel_async_yield.
FuelInputs == {0, 1, I64Max, U64Max}
\* The u32 values handed to out_of_fuel_async_yield.
InjectionCounts == 0 .. MaxInjections

Min(a, b) == IF a <= b THEN a ELSE b

\* Two's-complement wrap of an integer into the i64 range.
WrapI64(x) == ((x - I64Min) % (2 ^ FuelBits)) + I64Min

OutOfGasMessage == "all fuel consumed by WebAssembly"
DroppedMessage == "future dropped"
InterruptMessage == "interrupt"

VARIABLES
    is_async,                  \* StoreInner.is_async
    interruptable,             \* Config tunables.interruptable
    consume_fuel,              \* Config tunables.consume_fuel
    interrupted,               \* VMInterrupts: the shared interrupt flag
    irq_requested,             \* observer: interrupt() called and not yet delivered
    interrupts_fuel_consumed,  \* VMInterrupts.fuel_consumed (i64)
    fuel_adj,                  \* StoreInner.fuel_adj (i64)
    out_of_gas_behavior,       \* StoreInner.out_of_gas_behavior
    current_suspend,           \* StoreInner.current_suspend ("null" or "fiber")
    current_poll_cx,           \* StoreInner.current_poll_cx ("null" or "cx")
    pc,                        \* where the call is: idle, created, wasm, suspended, done
    wpc,                       \* where wasm is: none, entry, body, loop
    future_alive,              \* a FiberFuture exists (created and not yet dropped)
    blocking,                  \* the future block_on is suspended on, or NoFuture
    resume_val,                \* the value last passed to Fiber::resume
    poll_result,               \* what the last FiberFuture::poll returned
    result,                    \* how the last call into wasm ended
    add_meter,                 \* observer of the last add_fuel call
    yield_meter,               \* observer of the last out_of_fuel_async_yield call
    frame_info,                \* StoreInner.frame_info: the modules whose code is registered
    modules,                   \* StoreInner.modules: the module code kept alive
    instances,                 \* the modules instantiated in the store
    native_stack,              \* the native stack of the call in progress, outermost first
    tpc,                       \* where that call is: host, running, trapped, panicking
    trap,                      \* the Trap the last call returned, or NoTrap
    panic,                     \* the payload of the panic the last call unwound with, or NoPanic
    signatures,                \* StoreInner.signatures: the interned signatures, by shared index
    stack_maps,                \* StoreInner.stack_map_registry: the registered code ranges
    compiled,                  \* the modules compiled for the store (Module::new)
    register_calls,            \* observer: the modules register_module was given more than once
    instance_count,            \* StoreInner.instance_count (usize)
    memory_count,              \* StoreInner.memory_count (usize)
    table_count,               \* StoreInner.table_count (usize)
    max_instances,             \* Config.max_instances
    max_memories,              \* Config.max_memories
    max_tables,                \* Config.max_tables
    bump_result,               \* what the last bump_resource_counts returned
    store_refs,                \* the strong count of Rc<StoreInner>: Store clones and items
    upgraded,                  \* what the last Store::upgrade returned
    instance_list,             \* StoreInner.instances: the StoreInstance entries, in push order
    deallocated,               \* the deallocate calls the instance allocators received (a bag)
    code_refs,                 \* the strong count of each module's Arc<ModuleCode>
    unmapped,                  \* how often each module's code memory was dropped
    building,                  \* the from_artifacts call in progress, or NoBuild
    images,                    \* the image of each code memory and whether it is published
    built,                     \* the CompiledModule each successful from_artifacts returned
    extracted,                 \* what the last to_compilation_artifacts returned
    from_artifacts_result,     \* what the last from_artifacts returned
    compile_state,             \* the Compiler::compile call and the trampolines it has made
    call_state,                \* the trampoline made by make_trampoline and its run
    code_maps,                 \* the maps build_code_memory made from an allocation
    handle_result,             \* what the last Store::interrupt_handle returned
    woken,                     \* the waker of the last poll's Context was signalled
    linker,                    \* the definitions of the Linker
    link_result,               \* what the last Linker call returned
    linked,                    \* the instances Linker::instantiate has created
    inst_call,                 \* the CompiledModule::instantiate call in progress
    fibers,                    \* the fibers of the store's on_fiber calls
    fiber_stack                \* the fibers now running, outermost first

storeVars == <<is_async, interruptable, consume_fuel, interrupted, irq_requested,
               interrupts_fuel_consumed, fuel_adj, out_of_gas_behavior,
               current_suspend, current_poll_cx, pc, wpc, future_alive, blocking,
               resume_val, poll_result, result>>
meterVars == <<add_meter, yield_meter>>
regVars == <<signatures, stack_maps, compiled, register_calls>>
countVars == <<instance_count, memory_count, table_count,
               max_instances, max_memories, max_tables, bump_result>>
traceVars == <<frame_info, modules, instances, native_stack, tpc, trap, panic,
               regVars, countVars>>
lifeVars == <<store_refs, upgraded, instance_list, deallocated, code_refs, unmapped>>
jitVars == <<building, images, built, extracted, from_artifacts_result>>
trampVars == <<compile_state, call_state, code_maps>>
handleVars == <<handle_result, woken>>
linkVars == <<linker, link_result, linked, inst_call>>
fiberVars == <<fibers, fiber_stack>>
extVars == <<handleVars, linkVars, fiberVars>>
vars == <<storeVars, meterVars, traceVars, lifeVars, jitVars, trampVars, extVars>>

NoFuture == [kind |-> "none"]
OutOfGasTrap == [kind |-> "Trap"]
InjectFuel(injection_count, fuel_to_inject) ==
    [kind |-> "InjectFuel", injection_count |-> injection_count,
     fuel_to_inject |-> fuel_to_inject]

\* Store::_new
StoreNew ==
    /\ interrupted = FALSE
    /\ irq_requested = FALSE
    /\ interrupts_fuel_consumed = 0
    /\ fuel_adj = 0
    /\ out_of_gas_behavior = OutOfGasTrap
    /\ current_suspend = "null"
    /\ current_poll_cx = "null"
    /\ pc = "idle"
    /\ wpc = "none"
    /\ future_alive = FALSE
    /\ blocking = NoFuture
    /\ resume_val = "none"
    /\ poll_result = "none"
    /\ result = "none"

MeterOff == [on |-> FALSE]

NoTrap == [message |-> "none", trace |-> <<>>]
NoPanic == "none"

\* Store::_new: no module registered, nothing instantiated, no call.
StoreNewModules ==
    /\ frame_info = EmptyBag
    /\ modules = {}
    /\ instances = {}
    /\ signatures = <<>>
    /\ stack_maps = {}
    /\ register_calls = {}
    /\ instance_count = 0
    /\ memory_count = 0
    /\ table_count = 0
    /\ bump_result = "none"
    /\ native_stack = <<>>
    /\ tpc = "host"
    /\ trap = NoTrap
    /\ panic = NoPanic
    /\ store_refs = 1
    /\ upgraded = "none"
    /\ instance_list = <<>>

NoBuild == [at |-> "none"]
NoArtifacts == [of |-> 0]

NoModule == [signatures |-> <<>>, funcs |-> 0, imported |-> 0]

\* No Compiler::compile has been called.
NoCompile ==
    [at |-> "none", module |-> NoModule, finished_functions |-> 0,
     trampolines |-> <<>>, trampoline_relocations |-> [i \in {} |-> <<>>]]

\* No trampoline has been made.
NoCall ==
    [at |-> "none", signature |-> [params |-> <<>>, results |-> <<>>], value_size |-> 0,
     body |-> <<>>, relocs |-> <<>>, events |-> <<>>, pc |-> 0,
     loaded |-> [i \in {} |-> 0], values_vec |-> [o \in {} |-> 0],
     callee_args |-> <<>>, called |-> <<>>]

\* No build_code_memory has made its maps.
NoMaps ==
    [at |-> "none", module |-> NoModule, funcs |-> <<>>, sigs |-> <<>>,
     finished_functions |-> <<>>, trampolines |-> <<>>]

\* Nothing has been compiled, made or called.
NoTrampolines ==
    /\ compile_state = NoCompile
    /\ call_state = NoCall
    /\ code_maps = NoMaps

NoInstantiate == [at |-> "none"]
NoHandle == [kind |-> "none"]
NoLinkCall == [call |-> "none"]

\* No InterruptHandle was asked for, the Linker is new, and no fiber exists.
NoHandles ==
    /\ handle_result = NoHandle
    /\ woken = FALSE
    /\ linker = {}
    /\ link_result = NoLinkCall
    /\ linked = 0
    /\ inst_call = NoInstantiate
    /\ fibers = <<>>
    /\ fiber_stack = <<>>

\* No instance has been deallocated, and no module code exists.
NoCode ==
    /\ NoHandles
    /\ deallocated = EmptyBag
    /\ code_refs = [id \in {} |-> 0]
    /\ unmapped = [id \in {} |-> 0]
    /\ building = NoBuild
    /\ images = [id \in {} |-> 0]
    /\ built = [id \in {} |-> 0]
    /\ extracted = NoArtifacts
    /\ from_artifacts_result = "none"
    /\ NoTrampolines

\* A configuration whose resource limits are the largest usize.
ConfigLimitsLargest ==
    /\ max_instances = UsizeMax
    /\ max_memories = UsizeMax
    /\ max_tables = UsizeMax

Init ==
    /\ is_async \in BOOLEAN
    /\ interruptable \in BOOLEAN
    /\ consume_fuel \in BOOLEAN
    /\ StoreNew
    /\ StoreNewModules
    /\ NoCode
    /\ compiled = {}
    /\ ConfigLimitsLargest
    /\ add_meter = MeterOff
    /\ yield_meter = MeterOff

(***************************************************************************)
(* Fuel.                                                                   *)
(***************************************************************************)

\* Store::fuel_consumed: fuel_adj + consumed, converted to u64 (a panic if
\* the sum is negative or does not fit an i64).
fuel_consumed ==
    IF ~consume_fuel THEN "None"
    ELSE LET sum == fuel_adj + interrupts_fuel_consumed
         IN  IF sum < 0 \/ sum > I64Max THEN "panic" ELSE sum

\* The units of work wasm can still perform before the fuel counter reaches
\* zero and the out-of-gas handler is invoked.
Remaining == 0 - interrupts_fuel_consumed

\* A faulty add_fuel that sets the fuel left to its argument instead of
\* adding the argument to the fuel left.
AddFuelReplaces(adj, consumed, fuel_u64) ==
    LET fuel == IF fuel_u64 > I64Max THEN I64Max ELSE fuel_u64
        add  == adj + consumed + fuel
    IN  IF add <= I64Max
        THEN [fuel_adj |-> add, consumed |-> 0 - fuel, overflowed |-> FALSE]
        ELSE [fuel_adj |-> I64Max,
              consumed |-> WrapI64(WrapI64(consumed + adj) - I64Max),
              overflowed |-> TRUE]

\* A faulty add_fuel whose overflow branch fills the tank and forgets what
\* had been consumed.
AddFuelForgets(adj, consumed, fuel_u64) ==
    LET fuel == IF fuel_u64 > I64Max THEN I64Max ELSE fuel_u64
        sub  == consumed - fuel
        add  == adj + fuel
    IN  IF sub >= I64Min /\ sub <= I64Max /\ add >= I64Min /\ add <= I64Max
        THEN [fuel_adj |-> add, consumed |-> sub, overflowed |-> FALSE]
        ELSE [fuel_adj |-> I64Max, consumed |-> 0 - I64Max, overflowed |-> TRUE]

\* A faulty add_fuel whose arithmetic wraps instead of being checked.
AddFuelWraps(adj, consumed, fuel_u64) ==
    LET fuel == IF fuel_u64 > I64Max THEN I64Max ELSE fuel_u64
    IN  [fuel_adj |-> WrapI64(adj + fuel), consumed |-> WrapI64(consumed - fuel),
         overflowed |-> FALSE]

\* Store::add_fuel, as a function of the two counters.
AddFuelResult(adj, consumed, fuel_u64) ==
    LET fuel == IF fuel_u64 > I64Max THEN I64Max ELSE fuel_u64
        sub  == consumed - fuel
        add  == adj + fuel
    IN  IF sub >= I64Min /\ sub <= I64Max /\ add >= I64Min /\ add <= I64Max
        THEN [fuel_adj |-> add, consumed |-> sub, overflowed |-> FALSE]
        ELSE [fuel_adj |-> I64Max,
              consumed |-> WrapI64(WrapI64(consumed + adj) - I64Max),
              overflowed |-> TRUE]


\* The numeric value of fuel_adj + fuel_consumed (the fuel consumed so far).
TotalConsumed == fuel_adj + interrupts_fuel_consumed

\* The observer of add_fuel: the argument of the last call, the fuel that was
\* left before it, the branch it took, and the units of work done since.
MeterAdd(fuel, res) ==
    add_meter' = IF add_meter.on
                 THEN [on |-> TRUE, called |-> TRUE, arg |-> fuel, left |-> Remaining,
                       work |-> 0, overflowed |-> res.overflowed]
                 ELSE add_meter

MeterWork ==
    add_meter' = IF add_meter.on THEN [add_meter EXCEPT !.work = @ + 1] ELSE add_meter

\* The fuel of an out-of-gas yield that is suspended: add_fuel is owed on resume.
FuelOwed ==
    IF blocking.kind = "Yield" THEN Min(blocking.fuel_to_inject, I64Max) ELSE 0

\* The observer of out_of_fuel_async_yield before any call it observes.
YieldMeterStart == [on |-> TRUE, configured |-> FALSE, injection_count |-> 0,
                    fuel_to_inject |-> 0, left |-> 0, before |-> 0]

\* The observer of out_of_fuel_async_yield: its two arguments, and the fuel
\* the store held (left over or owed) and had consumed when it was called.
\* It observes stores that consume fuel, and stops observing when the host
\* adds fuel, changes the behaviour or cancels the call.
MeterConfigure(injection_count, fuel_to_inject) ==
    yield_meter' = IF yield_meter.on /\ consume_fuel
                   THEN [on |-> TRUE, configured |-> TRUE,
                         injection_count |-> injection_count,
                         fuel_to_inject |-> fuel_to_inject,
                         left |-> Remaining + FuelOwed, before |-> TotalConsumed]
                   ELSE yield_meter

MeterDisturb ==
    yield_meter' = IF yield_meter.on THEN YieldMeterStart ELSE yield_meter

HostFree == pc \in {"idle", "created", "suspended", "done"}

\* Store::add_fuel, called by the host.
add_fuel(fuel) ==
    /\ HostFree
    /\ consume_fuel
    /\ LET res == AddFuelResult(fuel_adj, interrupts_fuel_consumed, fuel)
       IN  /\ fuel_adj' = res.fuel_adj
           /\ interrupts_fuel_consumed' = res.consumed
           /\ MeterAdd(fuel, res)
    /\ MeterDisturb
    /\ UNCHANGED <<is_async, interruptable, consume_fuel, interrupted, irq_requested,
                   out_of_gas_behavior, current_suspend, current_poll_cx, pc, wpc,
                   future_alive, blocking, resume_val, poll_result, result>>
    /\ UNCHANGED <<traceVars, lifeVars, jitVars, trampVars, extVars>>

\* Store::out_of_fuel_trap
out_of_fuel_trap ==
    /\ HostFree
    /\ out_of_gas_behavior' = OutOfGasTrap
    /\ MeterDisturb
    /\ UNCHANGED <<is_async, interruptable, consume_fuel, interrupted, irq_requested,
                   interrupts_fuel_consumed, fuel_adj, current_suspend,
                   current_poll_cx, pc, wpc, future_alive, blocking, resume_val,
                   poll_result, result, add_meter>>
    /\ UNCHANGED <<traceVars, lifeVars, jitVars, trampVars, extVars>>

\* Store::out_of_fuel_async_yield
out_of_fuel_async_yield(injection_count, fuel_to_inject) ==
    /\ HostFree
    /\ is_async
    /\ out_of_gas_behavior' = InjectFuel(injection_count, fuel_to_inject)
    /\ MeterConfigure(injection_count, fuel_to_inject)
    /\ UNCHANGED <<is_async, interruptable, consume_fuel, interrupted, irq_requested,
                   interrupts_fuel_consumed, fuel_adj, current_suspend,
                   current_poll_cx, pc, wpc, future_alive, blocking, resume_val,
                   poll_result, result, add_meter>>
    /\ UNCHANGED <<traceVars, lifeVars, jitVars, trampVars, extVars>>

(***************************************************************************)
(* Interrupts.                                                             *)
(***************************************************************************)

\* A faulty interrupt whose store to the shared flag is lost.
interrupt_lost ==
    /\ handle_result.kind = "Ok"
    /\ handle_result.interrupts = "store"
    /\ irq_requested' = TRUE
    /\ UNCHANGED <<is_async, interruptable, consume_fuel, interrupted,
                   interrupts_fuel_consumed, fuel_adj, out_of_gas_behavior,
                   current_suspend, current_poll_cx, pc, wpc, future_alive, blocking,
                   resume_val, poll_result, result, add_meter, yield_meter>>
    /\ UNCHANGED <<traceVars, lifeVars, jitVars, trampVars, extVars>>

\* A faulty interrupt that stores its mark in the fuel counter of the
\* VMInterrupts as well.
interrupt_burns_fuel ==
    /\ handle_result.kind = "Ok"
    /\ handle_result.interrupts = "store"
    /\ interrupted' = TRUE
    /\ irq_requested' = TRUE
    /\ interrupts_fuel_consumed' = I64Max
    /\ UNCHANGED <<is_async, interruptable, consume_fuel,
                   fuel_adj, out_of_gas_behavior, current_suspend, current_poll_cx,
                   pc, wpc, future_alive, blocking, resume_val, poll_result, result,
                   add_meter, yield_meter>>
    /\ UNCHANGED <<traceVars, lifeVars, jitVars, trampVars, extVars>>

\* The message of the error (the source writes Store between backquotes).
InterruptsDisabledMessage == "interrupts aren't enabled for this Store"

\* A faulty interrupt_handle that hands out a handle whatever the Config says.
interrupt_handle_unchecked ==
    /\ handle_result' = [kind |-> "Ok", interrupts |-> "store"]
    /\ UNCHANGED <<storeVars, meterVars, traceVars, lifeVars, jitVars, trampVars,
                   linkVars, fiberVars, woken>>

\* Store::interrupt_handle: a handle holding a clone of the store's
\* Arc<VMInterrupts> if the Config is interruptable, an error otherwise.
interrupt_handle ==
    /\ handle_result' =
          IF interruptable
          THEN [kind |-> "Ok", interrupts |-> "store"]
          ELSE [kind |-> "Err", message |-> InterruptsDisabledMessage]
    /\ UNCHANGED <<storeVars, meterVars, traceVars, lifeVars, jitVars, trampVars,
                   linkVars, fiberVars, woken>>

\* InterruptHandle::interrupt, from any thread, through a handle that
\* Store::interrupt_handle returned: it sets the flag of the VMInterrupts
\* the handle holds.
interrupt ==
    /\ handle_result.kind = "Ok"
    /\ handle_result.interrupts = "store"
    /\ interrupted' = TRUE
    /\ irq_requested' = TRUE
    /\ UNCHANGED <<is_async, interruptable, consume_fuel, interrupts_fuel_consumed,
                   fuel_adj, out_of_gas_behavior, current_suspend, current_poll_cx,
                   pc, wpc, future_alive, blocking, resume_val, poll_result, result,
                   add_meter, yield_meter>>
    /\ UNCHANGED <<traceVars, lifeVars, jitVars, trampVars, extVars>>

(***************************************************************************)
(* The end of a call into wasm.                                            *)
(***************************************************************************)

\* The call returns to the host with res.  On an async store the fiber
\* closure ends (its Reset restores current_suspend) and the poll that was
\* running the fiber returns Ready (its Reset restores current_poll_cx).
Finish(res) ==
    /\ result' = res
    /\ wpc' = "none"
    /\ blocking' = NoFuture
    /\ UNCHANGED woken
    /\ IF is_async
       THEN /\ pc' = "done"
            /\ poll_result' = "Ready"
            /\ current_suspend' = "null"
            /\ current_poll_cx' = "null"
       ELSE /\ pc' = "idle"
            /\ UNCHANGED <<poll_result, current_suspend, current_poll_cx>>

(***************************************************************************)
(* block_on and the out-of-gas handler.                                    *)
(***************************************************************************)

\* Future::poll of the future handed to block_on: Yield is Pending once and
\* then Ready; a host future is Ready when its event has happened.
FuturePoll(fut) ==
    IF fut.kind = "Yield"
    THEN (IF fut.yielded THEN "Ready" ELSE "Pending")
    ELSE (IF fut.ready THEN "Ready" ELSE "Pending")

\* The future after that poll (Yield flags itself as yielded).
FutureAfterPoll(fut) ==
    IF fut.kind = "Yield" THEN [fut EXCEPT !.yielded = TRUE] ELSE fut

\* A faulty block_on that suspends the fiber whatever the poll returned.
BlockOnAlwaysSuspends(fut) == TRUE

\* block_on's loop body: suspend the fiber exactly when the poll was Pending.
BlockOnSuspends(fut) == FuturePoll(fut) = "Pending"

\* A faulty Yield future that returns Pending without signalling the waker.
YieldNeverWakes(fut) == FALSE

\* Future::poll of that future signals the waker of its Context: Yield
\* does on its first poll (wake_by_ref); a pending host future does not,
\* its waker is signalled when its event happens.
WakesOnPoll(fut) == fut.kind = "Yield" /\ ~fut.yielded

\* block_on suspending: the fiber switches out with current_suspend taken
\* (null), and the poll that resumed it returns Pending.
Suspend(fut) ==
    /\ current_suspend # "null"
    /\ current_poll_cx # "null"
    /\ pc' = "suspended"
    /\ blocking' = FutureAfterPoll(fut)
    /\ current_suspend' = "null"
    /\ current_poll_cx' = "null"
    /\ poll_result' = "Pending"
    /\ woken' = WakesOnPoll(fut)

\* Store::out_of_gas_trap
out_of_gas_trap == Finish(OutOfGasMessage)

\* Store::out_of_gas_yield, up to the suspension inside block_on.
out_of_gas_yield(fuel_to_inject) ==
    LET future == [kind |-> "Yield", yielded |-> FALSE,
                   fuel_to_inject |-> fuel_to_inject]
    IN  /\ BlockOnSuspends(future)
        /\ Suspend(future)
        /\ UNCHANGED <<wpc, result>>

\* A faulty out-of-gas handler that never uses up an injection.
out_of_gas_no_decrement ==
    IF out_of_gas_behavior.kind = "Trap"
    THEN out_of_gas_trap /\ UNCHANGED out_of_gas_behavior
    ELSE IF out_of_gas_behavior.injection_count = 0
         THEN out_of_gas_trap /\ UNCHANGED out_of_gas_behavior
         ELSE /\ UNCHANGED out_of_gas_behavior
              /\ out_of_gas_yield(out_of_gas_behavior.fuel_to_inject)

\* A faulty out-of-gas handler that yields even with no injection left.
out_of_gas_always_yields ==
    IF out_of_gas_behavior.kind = "Trap"
    THEN out_of_gas_trap /\ UNCHANGED out_of_gas_behavior
    ELSE /\ out_of_gas_behavior' =
               InjectFuel(IF out_of_gas_behavior.injection_count = 0 THEN 0
                          ELSE out_of_gas_behavior.injection_count - 1,
                          out_of_gas_behavior.fuel_to_inject)
         /\ out_of_gas_yield(out_of_gas_behavior.fuel_to_inject)

\* TrapInfo::out_of_gas
out_of_gas ==
    IF out_of_gas_behavior.kind = "Trap"
    THEN out_of_gas_trap /\ UNCHANGED out_of_gas_behavior
    ELSE IF out_of_gas_behavior.injection_count = 0
         THEN out_of_gas_trap /\ UNCHANGED out_of_gas_behavior
         ELSE /\ out_of_gas_behavior' =
                    InjectFuel(out_of_gas_behavior.injection_count - 1,
                               out_of_gas_behavior.fuel_to_inject)
              /\ out_of_gas_yield(out_of_gas_behavior.fuel_to_inject)


(***************************************************************************)
(* Calls into wasm: Func::call on a synchronous store, on_fiber and the    *)
(* FiberFuture on an async store.                                          *)
(***************************************************************************)

\* A synchronous call into wasm (only on a synchronous store).
call ==
    /\ ~is_async
    /\ pc = "idle"
    /\ pc' = "wasm"
    /\ wpc' = "entry"
    /\ result' = "none"
    /\ UNCHANGED <<is_async, interruptable, consume_fuel, interrupted, irq_requested,
                   interrupts_fuel_consumed, fuel_adj, out_of_gas_behavior,
                   current_suspend, current_poll_cx, future_alive, blocking,
                   resume_val, poll_result, add_meter, yield_meter>>
    /\ UNCHANGED <<traceVars, lifeVars, jitVars, trampVars, extVars>>

\* Store::on_fiber: the fiber and its FiberFuture are created, nothing runs.
on_fiber ==
    /\ is_async
    /\ pc = "idle"
    /\ pc' = "created"
    /\ future_alive' = TRUE
    /\ result' = "none"
    /\ resume_val' = "none"
    /\ poll_result' = "none"
    /\ UNCHANGED <<is_async, interruptable, consume_fuel, interrupted, irq_requested,
                   interrupts_fuel_consumed, fuel_adj, out_of_gas_behavior,
                   current_suspend, current_poll_cx, wpc, blocking, add_meter,
                   yield_meter>>
    /\ UNCHANGED <<traceVars, lifeVars, jitVars, trampVars, extVars>>

\* FiberFuture::poll: install the poll context and resume the fiber with Ok.
\* A new fiber installs its Suspend and starts the function; a suspended one
\* continues block_on's loop, which polls its future again.
poll ==
    /\ future_alive
    /\ resume_val' = "Ok"
    /\ woken' = FALSE
    /\ \/ /\ pc = "created"
          /\ pc' = "wasm"
          /\ wpc' = "entry"
          /\ current_suspend' = "fiber"
          /\ current_poll_cx' = "cx"
          /\ poll_result' = "none"
          /\ UNCHANGED <<interrupts_fuel_consumed, fuel_adj, blocking, add_meter>>
       \/ /\ pc = "suspended"
          /\ IF BlockOnSuspends(blocking)
             THEN /\ poll_result' = "Pending"
                  /\ UNCHANGED <<pc, wpc, current_suspend, current_poll_cx, blocking,
                                 interrupts_fuel_consumed, fuel_adj, add_meter>>
             ELSE /\ pc' = "wasm"
                  /\ wpc' = "body"
                  /\ current_suspend' = "fiber"
                  /\ current_poll_cx' = "cx"
                  /\ poll_result' = "none"
                  /\ blocking' = NoFuture
                  /\ IF blocking.kind = "Yield"
                     THEN LET res == AddFuelResult(fuel_adj, interrupts_fuel_consumed,
                                                   blocking.fuel_to_inject)
                          IN  /\ fuel_adj' = res.fuel_adj
                              /\ interrupts_fuel_consumed' = res.consumed
                              /\ MeterAdd(blocking.fuel_to_inject, res)
                     ELSE UNCHANGED <<interrupts_fuel_consumed, fuel_adj, add_meter>>
    /\ UNCHANGED <<is_async, interruptable, consume_fuel, interrupted, irq_requested,
                   out_of_gas_behavior, future_alive, result, yield_meter>>
    /\ UNCHANGED <<traceVars, lifeVars, jitVars, trampVars, linkVars, fiberVars,
                   handle_result>>

\* A faulty Drop for FiberFuture that frees the future without resuming the
\* fiber.
drop_without_resume ==
    /\ future_alive
    /\ future_alive' = FALSE
    /\ poll_result' = "none"
    /\ pc' = IF pc = "done" THEN "idle" ELSE pc
    /\ UNCHANGED <<is_async, interruptable, consume_fuel, interrupted, irq_requested,
                   interrupts_fuel_consumed, fuel_adj, out_of_gas_behavior,
                   current_suspend, current_poll_cx, wpc, blocking, resume_val,
                   result, add_meter, yield_meter>>
    /\ UNCHANGED <<traceVars, lifeVars, jitVars, trampVars, extVars>>

\* Drop for FiberFuture: nothing if the fiber is done; otherwise resume it
\* with Err(Trap "future dropped").  A fiber that never started returns at
\* keep_going?; a suspended one gets the trap out of block_on, which unwinds
\* wasm and ends the fiber.
drop ==
    /\ future_alive
    /\ future_alive' = FALSE
    /\ pc' = "idle"
    /\ poll_result' = "none"
    /\ woken' = FALSE
    /\ \/ /\ pc = "done"
          /\ UNCHANGED <<resume_val, result, wpc, blocking, yield_meter>>
       \/ /\ pc = "created"
          /\ resume_val' = "Err"
          /\ UNCHANGED <<result, wpc, blocking, yield_meter>>
       \/ /\ pc = "suspended"
          /\ resume_val' = "Err"
          /\ result' = DroppedMessage
          /\ wpc' = "none"
          /\ blocking' = NoFuture
          /\ MeterDisturb
    /\ UNCHANGED <<is_async, interruptable, consume_fuel, interrupted, irq_requested,
                   interrupts_fuel_consumed, fuel_adj, out_of_gas_behavior,
                   current_suspend, current_poll_cx, add_meter>>
    /\ UNCHANGED <<traceVars, lifeVars, jitVars, trampVars, linkVars, fiberVars,
                   handle_result>>

(***************************************************************************)
(* The compiled wasm code.                                                 *)
(***************************************************************************)

\* The interrupt check at a function entry or a loop head.
wasm_check ==
    /\ pc = "wasm"
    /\ wpc \in {"entry", "loop"}
    /\ IF interruptable /\ interrupted
       THEN /\ interrupted' = FALSE
            /\ irq_requested' = FALSE
            /\ Finish(InterruptMessage)
       ELSE /\ wpc' = "body"
            /\ UNCHANGED <<interrupted, irq_requested, pc, blocking, poll_result,
                           current_suspend, current_poll_cx, result, woken>>
    /\ UNCHANGED <<is_async, interruptable, consume_fuel, interrupts_fuel_consumed,
                   fuel_adj, out_of_gas_behavior, future_alive, resume_val, add_meter,
                   yield_meter>>
    /\ UNCHANGED <<traceVars, lifeVars, jitVars, trampVars, linkVars, fiberVars,
                   handle_result>>

\* One unit of work: the fuel counter is charged, or, when it has reached
\* zero, the out-of-gas handler is invoked instead.
wasm_work ==
    /\ pc = "wasm"
    /\ wpc = "body"
    /\ consume_fuel
    /\ IF interrupts_fuel_consumed >= 0
       THEN out_of_gas /\ UNCHANGED <<interrupts_fuel_consumed, add_meter>>
       ELSE /\ interrupts_fuel_consumed' = interrupts_fuel_consumed + 1
            /\ MeterWork
            /\ UNCHANGED <<out_of_gas_behavior, pc, wpc, blocking, poll_result,
                           current_suspend, current_poll_cx, result, woken>>
    /\ UNCHANGED <<is_async, interruptable, consume_fuel, interrupted, irq_requested,
                   fuel_adj, future_alive, resume_val, yield_meter>>
    /\ UNCHANGED <<traceVars, lifeVars, jitVars, trampVars, linkVars, fiberVars,
                   handle_result>>

\* A loop back-edge or a call of another wasm function: the next step is an
\* interrupt check.
wasm_branch ==
    /\ pc = "wasm"
    /\ wpc = "body"
    /\ wpc' \in {"entry", "loop"}
    /\ UNCHANGED <<is_async, interruptable, consume_fuel, interrupted, irq_requested,
                   interrupts_fuel_consumed, fuel_adj, out_of_gas_behavior,
                   current_suspend, current_poll_cx, pc, future_alive, blocking,
                   resume_val, poll_result, result, add_meter, yield_meter>>
    /\ UNCHANGED <<traceVars, lifeVars, jitVars, trampVars, extVars>>

\* The function called from the host returns.
wasm_return ==
    /\ pc = "wasm"
    /\ wpc = "body"
    /\ Finish("ok")
    /\ UNCHANGED <<is_async, interruptable, consume_fuel, interrupted, irq_requested,
                   interrupts_fuel_consumed, fuel_adj, out_of_gas_behavior,
                   future_alive, resume_val, add_meter, yield_meter>>
    /\ UNCHANGED <<traceVars, lifeVars, jitVars, trampVars, linkVars, fiberVars,
                   handle_result>>

\* Wasm calls an async host function, whose future block_on polls: the call
\* returns at once when the future is ready and suspends the fiber when not.
host_call ==
    /\ is_async
    /\ pc = "wasm"
    /\ wpc = "body"
    /\ \E ready \in BOOLEAN :
          LET future == [kind |-> "host", ready |-> ready]
          IN  IF BlockOnSuspends(future)
              THEN Suspend(future)
              ELSE UNCHANGED <<pc, blocking, current_suspend, current_poll_cx,
                               poll_result, woken>>
    /\ UNCHANGED <<is_async, interruptable, consume_fuel, interrupted, irq_requested,
                   interrupts_fuel_consumed, fuel_adj, out_of_gas_behavior, wpc,
                   future_alive, resume_val, result, add_meter, yield_meter>>
    /\ UNCHANGED <<traceVars, lifeVars, jitVars, trampVars, linkVars, fiberVars,
                   handle_result>>

\* The event a pending host future waits for happens.
host_ready ==
    /\ pc = "suspended"
    /\ blocking.kind = "host"
    /\ ~blocking.ready
    /\ blocking' = [blocking EXCEPT !.ready = TRUE]
    /\ woken' = TRUE
    /\ UNCHANGED <<is_async, interruptable, consume_fuel, interrupted, irq_requested,
                   interrupts_fuel_consumed, fuel_adj, out_of_gas_behavior,
                   current_suspend, current_poll_cx, pc, wpc, future_alive,
                   resume_val, poll_result, result, add_meter, yield_meter>>
    /\ UNCHANGED <<traceVars, lifeVars, jitVars, trampVars, linkVars, fiberVars,
                   handle_result>>

\* The operations of the Store's own thread.
NextStore ==
    \/ \E fuel \in FuelInputs : add_fuel(fuel)
    \/ out_of_fuel_trap
    \/ \E injection_count \in InjectionCounts, fuel_to_inject \in FuelInputs :
          out_of_fuel_async_yield(injection_count, fuel_to_inject)
    \/ call
    \/ on_fiber
    \/ poll
    \/ drop
    \/ wasm_check
    \/ wasm_work
    \/ wasm_branch
    \/ wasm_return
    \/ host_call
    \/ host_ready

Next == NextStore \/ interrupt_handle \/ interrupt

Spec == Init /\ [][Next]_vars

\* The same store with the observer of add_fuel switched on, on a store
\* that is not interruptable (no InterruptHandle exists).
AddMeterStart == [on |-> TRUE, called |-> FALSE, arg |-> 0, left |-> 0, work |-> 0,
                  overflowed |-> FALSE]

InitAdd ==
    /\ is_async \in BOOLEAN
    /\ interruptable = FALSE
    /\ consume_fuel \in BOOLEAN
    /\ StoreNew
    /\ StoreNewModules
    /\ NoCode
    /\ compiled = {}
    /\ ConfigLimitsLargest
    /\ add_meter = AddMeterStart
    /\ yield_meter = MeterOff

SpecAdd == InitAdd /\ [][NextStore]_vars

\* The same store with the observer of out_of_fuel_async_yield switched on.
InitYield ==
    /\ is_async \in BOOLEAN
    /\ interruptable = FALSE
    /\ consume_fuel \in BOOLEAN
    /\ StoreNew
    /\ StoreNewModules
    /\ NoCode
    /\ compiled = {}
    /\ ConfigLimitsLargest
    /\ add_meter = MeterOff
    /\ yield_meter = YieldMeterStart

SpecYield == InitYield /\ [][NextStore]_vars

\* The same store under an executor that polls a task again once its waker
\* was signalled.
SpecYieldFair == InitYield /\ [][NextStore]_vars /\ WF_vars(woken /\ poll)

(***************************************************************************)
(* Modules, frame information and backtraces.  The modules are those of    *)
(* crates/api/tests/traps.rs; the lookup of a PC in the frame information  *)
(* and the walk of the native stack live in other crates and are modelled  *)
(* from the specification.                                                 *)
(***************************************************************************)

\* Bounds: the native frames a stack holds before wasm traps with "call
\* stack exhausted", and the code bytes of one compiled function.
MaxStack == 33
FuncLen == 2

None == "None"

\* A wasm function type.
FuncType(params, results) == [params |-> params, results |-> results]

\* The functions of a module; sig is the index of the function's type in
\* the module's types.
HostImport(name, message) ==
    [kind |-> "host", name |-> name, op |-> "trap", target |-> 0,
     from |-> None, message |-> message, sig |-> 0]
HostPanic(name, payload) ==
    [kind |-> "host", name |-> name, op |-> "panic", target |-> 0,
     from |-> None, message |-> payload, sig |-> 0]
WasmImport(name, from, target) ==
    [kind |-> "import", name |-> name, op |-> "call", target |-> target,
     from |-> from, message |-> None, sig |-> 0]
Defined(name, op, target) ==
    [kind |-> "defined", name |-> name, op |-> op, target |-> target,
     from |-> None, message |-> None, sig |-> 0]

\* The modules of the tests: funcs[i + 1] is the function of index i and
\* types[i + 1] the type of index i.
test_trap_return_wat ==
    [name |-> None, exports |-> {1}, start |-> {}, types |-> <<FuncType(<<>>, <<>>)>>,
     funcs |-> <<HostImport("hello", "test 123"), Defined(None, "call", 0)>>]

test_trap_trace_wat ==
    [name |-> "hello_mod", exports |-> {0}, start |-> {}, types |-> <<FuncType(<<>>, <<>>)>>,
     funcs |-> <<Defined(None, "call", 1), Defined("hello", "unreachable", 0)>>]

test_trap_trace_cb_wat ==
    [name |-> "hello_mod", exports |-> {1}, start |-> {}, types |-> <<FuncType(<<>>, <<>>)>>,
     funcs |-> <<HostImport("throw", "cb throw"), Defined(None, "call", 2),
                 Defined("hello", "call", 0)>>]

test_trap_stack_overflow_wat ==
    [name |-> "rec_mod", exports |-> {0}, start |-> {}, types |-> <<FuncType(<<>>, <<>>)>>,
     funcs |-> <<Defined("run", "call", 0)>>]

trap_display_pretty_wat ==
    [name |-> "m", exports |-> {3}, start |-> {}, types |-> <<FuncType(<<>>, <<>>)>>,
     funcs |-> <<Defined("die", "unreachable", 0), Defined(None, "call", 0),
                 Defined("foo", "call", 1), Defined(None, "call", 2)>>]

trap_display_multi_module_a ==
    [name |-> "a", exports |-> {3}, start |-> {}, types |-> <<FuncType(<<>>, <<>>)>>,
     funcs |-> <<Defined("die", "unreachable", 0), Defined(None, "call", 0),
                 Defined("foo", "call", 1), Defined(None, "call", 2)>>]

trap_display_multi_module_b ==
    [name |-> "b", exports |-> {2}, start |-> {}, types |-> <<FuncType(<<>>, <<>>)>>,
     funcs |-> <<WasmImport("bar", "multi_a", 3), Defined("middle", "call", 0),
                 Defined(None, "call", 1)>>]

trap_start_function_import_wat ==
    [name |-> "a", exports |-> {}, start |-> {0}, types |-> <<FuncType(<<>>, <<>>)>>,
     funcs |-> <<HostImport("foo", "user trap")>>]

rust_panic_import_wat ==
    [name |-> "a", exports |-> {1}, start |-> {}, types |-> <<FuncType(<<>>, <<>>)>>,
     funcs |-> <<HostPanic("foo", "this is a panic"), Defined(None, "call", 0)>>]

rust_panic_start_function_wat ==
    [name |-> "a", exports |-> {}, start |-> {0}, types |-> <<FuncType(<<>>, <<>>)>>,
     funcs |-> <<HostPanic("foo", "this is a panic")>>]

mismatched_arguments_wat ==
    [name |-> "a", exports |-> {0}, start |-> {}, types |-> <<FuncType(<<"i32">>, <<>>)>>,
     funcs |-> <<Defined(None, "return", 0)>>]

ModuleIds == {"trap_return", "trap_trace", "trap_trace_cb", "stack_overflow",
              "pretty", "multi_a", "multi_b", "start_import",
              "panic_import", "panic_start", "mismatched"}

ModuleOf(id) ==
    CASE id = "trap_return" -> test_trap_return_wat
      [] id = "trap_trace" -> test_trap_trace_wat
      [] id = "trap_trace_cb" -> test_trap_trace_cb_wat
      [] id = "stack_overflow" -> test_trap_stack_overflow_wat
      [] id = "pretty" -> trap_display_pretty_wat
      [] id = "multi_a" -> trap_display_multi_module_a
      [] id = "multi_b" -> trap_display_multi_module_b
      [] id = "start_import" -> trap_start_function_import_wat
      [] id = "panic_import" -> rust_panic_import_wat
      [] id = "panic_start" -> rust_panic_start_function_wat
      [] id = "mismatched" -> mismatched_arguments_wat

FuncOf(id, index) == ModuleOf(id).funcs[index + 1]

\* The type of function index of module id.
TypeOf(id, index) == ModuleOf(id).types[FuncOf(id, index).sig + 1]

NumImports(id) ==
    Cardinality({i \in DOMAIN ModuleOf(id).funcs : ModuleOf(id).funcs[i].kind # "defined"})

\* CompiledModule::finished_functions: the number of compiled (defined) functions.
finished_functions(id) == Len(ModuleOf(id).funcs) - NumImports(id)

\* Compiler::compile: one trampoline is compiled for every signature of
\* the module.
trampolines(id) == Len(ModuleOf(id).types)

\* Where the code of a module is mapped: every module has its own range.
CodeSlot(id) ==
    CASE id = "trap_return" -> 0
      [] id = "trap_trace" -> 1
      [] id = "trap_trace_cb" -> 2
      [] id = "stack_overflow" -> 3
      [] id = "pretty" -> 4
      [] id = "multi_a" -> 5
      [] id = "multi_b" -> 6
      [] id = "start_import" -> 7
      [] id = "panic_import" -> 8
      [] id = "panic_start" -> 9
      [] id = "mismatched" -> 10

CodeStart(id) == 1 + CodeSlot(id) * (6 * FuncLen)

\* The first PC of the compiled function of defined index d.
FuncStart(id, d) == CodeStart(id) + d * FuncLen

\* The end of the compiled functions of a module.
FuncsEnd(id) == FuncStart(id, finished_functions(id))

\* build_code_memory: the functions and then the trampolines of a module
\* are allocated in its CodeMemory, which is published whole.
CodeEnd(id) == FuncsEnd(id) + trampolines(id) * FuncLen

\* CompiledModule::jit_code_ranges: the published range of the module's
\* CodeMemory, as (start, end).
jit_code_ranges(id) == {<<CodeStart(id), CodeEnd(id)>>}

\* All the PCs of the address space.
PCs == 0 .. (1 + Cardinality(ModuleIds) * (6 * FuncLen))

\* The PC of wasm function index in a frame: the last byte of its code.
FramePc(id, index) == FuncStart(id, index - NumImports(id)) + (FuncLen - 1)

\* The PC of host code is outside all module code.
HostFrame == [kind |-> "host", pc |-> 0, module |-> None, func |-> 0]
WasmFrame(id, index) ==
    [kind |-> "wasm", pc |-> FramePc(id, index), module |-> id, func |-> index]

\* StoreFrameInfo::contains_pc: an entry of the frame information covers
\* the compiled functions of its module.
contains_pc(info, addr) ==
    \E id \in BagToSet(info) : addr >= CodeStart(id) /\ addr < FuncsEnd(id)

\* StoreFrameInfo::lookup_frame_info: the module, function index and name
\* of the function whose code holds addr.
lookup_frame_info(info, addr) ==
    LET id == CHOOSE m \in BagToSet(info) : addr >= CodeStart(m) /\ addr < FuncsEnd(m)
        index == NumImports(id) + ((addr - CodeStart(id)) \div FuncLen)
    IN  [module_name |-> ModuleOf(id).name, func_index |-> index,
         func_name |-> FuncOf(id, index).name]

\* The backtrace of a trap: the frames of the native stack, innermost
\* first, whose PC falls within registered module code.
RECURSIVE Backtrace(_, _)
Backtrace(stack, info) ==
    IF stack = <<>> THEN <<>>
    ELSE LET frame == stack[Len(stack)]
             rest  == Backtrace(SubSeq(stack, 1, Len(stack) - 1), info)
         IN  IF contains_pc(info, frame.pc)
             THEN <<lookup_frame_info(info, frame.pc)>> \o rest
             ELSE rest

\* StoreFrameInfo::register: one more entry, for the module.
FrameInfoRegister(info, id) == info (+) SetToBag({id})

\* A faulty register_jit_code that registers nothing.
register_jit_code_never(info, id) == info

\* A faulty register_jit_code that registers only the first module of a store.
register_jit_code_once(info, id) ==
    IF finished_functions(id) = 0 THEN info
    ELSE IF info = EmptyBag THEN FrameInfoRegister(info, id) ELSE info

\* A faulty register_jit_code that registers a module each time it is given.
register_jit_code_again(info, id) ==
    IF finished_functions(id) = 0 THEN info
    ELSE FrameInfoRegister(info, id)

\* A faulty register_jit_code that registers a module without functions too.
register_jit_code_empty_too(info, id) ==
    IF ~BagIn(id, info) THEN FrameInfoRegister(info, id) ELSE info

\* Store::register_jit_code
register_jit_code(info, id) ==
    IF finished_functions(id) = 0 THEN info
    ELSE IF ~contains_pc(info, FuncStart(id, 0)) THEN FrameInfoRegister(info, id) ELSE info

\* Store::register_stack_maps: the range of every compiled function of the
\* module is handed to the registry, which is keyed by range.
register_stack_maps(maps, id) ==
    maps \cup {<<FuncStart(id, d), FuncStart(id, d) + FuncLen>> :
                  d \in 0 .. (finished_functions(id) - 1)}

\* SignatureRegistry::lookup: the shared index of a type, as the set that
\* holds it, or the empty set for none.
SignatureLookup(sigs, wasm) == {i \in DOMAIN sigs : sigs[i].wasm = wasm}

\* SignatureRegistry::register: a type is interned once, with a trampoline
\* for it; the trampoline is represented by the type it bridges.
SignatureRegister(sigs, wasm, trampoline) ==
    IF SignatureLookup(sigs, wasm) # {} THEN sigs
    ELSE Append(sigs, [wasm |-> wasm, trampoline |-> trampoline])

\* The loop of register_signatures over the first n types of the module.
RECURSIVE RegisterSignaturesUpTo(_, _, _)
RegisterSignaturesUpTo(sigs, id, n) ==
    IF n = 0 THEN sigs
    ELSE SignatureRegister(RegisterSignaturesUpTo(sigs, id, n - 1),
                           ModuleOf(id).types[n], [for |-> ModuleOf(id).types[n]])

\* A faulty register_signatures that registers no signature.
register_signatures_none(sigs, id) == sigs

\* Store::register_signatures
register_signatures(sigs, id) == RegisterSignaturesUpTo(sigs, id, Len(ModuleOf(id).types))

\* Store::lookup_shared_signature: the shared index of the signature
\* index of module id, or the panic of the expect.
lookup_shared_signature(sigs, id, index) ==
    LET found == SignatureLookup(sigs, ModuleOf(id).types[index + 1])
    IN  IF found = {} THEN [panic |-> "signature not previously registered"]
        ELSE [shared |-> CHOOSE i \in found : TRUE]

\* A faulty register_module that keeps the code alive without registering it.
register_module_keeps_only(id) ==
    /\ frame_info' = frame_info
    /\ stack_maps' = register_stack_maps(stack_maps, id)
    /\ signatures' = register_signatures(signatures, id)
    /\ modules' = modules \cup {id}

\* A faulty register_module that registers the code without keeping it alive.
register_module_drops_code(id) ==
    /\ frame_info' = register_jit_code(frame_info, id)
    /\ stack_maps' = register_stack_maps(stack_maps, id)
    /\ signatures' = register_signatures(signatures, id)
    /\ modules' = modules

\* Store::register_module
register_module(id) ==
    /\ frame_info' = register_jit_code(frame_info, id)
    /\ stack_maps' = register_stack_maps(stack_maps, id)
    /\ signatures' = register_signatures(signatures, id)
    /\ modules' = modules \cup {id}

\* A faulty max_wasm_stack: half the configured stack.
max_wasm_stack_half == MaxStack \div 2

\* TrapInfo::max_wasm_stack, in native frames.
max_wasm_stack == MaxStack

\* A call ends with a trap.
Trapped(message, stack, info) ==
    /\ trap' = [message |-> message, trace |-> Backtrace(stack, info)]
    /\ panic' = NoPanic
    /\ tpc' = "trapped"

\* A faulty host call whose panic is turned into a trap.
HostPanicsAsTrap(payload, stack, info) == Trapped(payload, stack, info)

\* A host function panics: the panic unwinds with its payload.
HostPanics(payload, stack, info) ==
    /\ trap' = NoTrap
    /\ panic' = payload
    /\ tpc' = "panicking"

\* The call of function index of module id on top of stack: a host import
\* returns its trap or panics, an imported wasm function is entered in its
\* own module, and a defined function is entered unless the stack is
\* exhausted.
Enter(stack, id, index, info) ==
    LET f == FuncOf(id, index)
    IN  IF f.kind = "host"
        THEN /\ native_stack' = Append(stack, HostFrame)
             /\ IF f.op = "panic"
                THEN HostPanics(f.message, Append(stack, HostFrame), info)
                ELSE Trapped(f.message, Append(stack, HostFrame), info)
        ELSE IF Len(stack) >= max_wasm_stack
        THEN /\ native_stack' = stack
             /\ Trapped("call stack exhausted", stack, info)
        ELSE /\ native_stack' =
                    Append(stack, IF f.kind = "import" THEN WasmFrame(f.from, f.target)
                                  ELSE WasmFrame(id, index))
             /\ trap' = NoTrap
             /\ panic' = NoPanic
             /\ tpc' = "running"

\* A faulty Instance::new that keeps the instance whose start function failed.
InstantiateKeepsFailed(id) ==
    IF ModuleOf(id).start # {}
    THEN /\ \E index \in ModuleOf(id).start : Enter(<<HostFrame>>, id, index, frame_info')
         /\ instances' = instances \cup {id}
    ELSE /\ instances' = instances \cup {id}
         /\ UNCHANGED <<native_stack, tpc, trap, panic>>

\* Instance::new after the registration: the start function, if any, is
\* called; the instance exists if there is none to fail.
InstantiateStart(id) ==
    IF ModuleOf(id).start # {}
    THEN /\ \E index \in ModuleOf(id).start : Enter(<<HostFrame>>, id, index, frame_info')
         /\ UNCHANGED instances
    ELSE /\ instances' = instances \cup {id}
         /\ UNCHANGED <<native_stack, tpc, trap, panic>>

\* Instance::new: the module is registered in the store, then its start
\* function, if any, is called; the instance exists if that did not fail.
\* The resource counters are the subject of bump_resource_counts below.
instantiate(id) ==
    /\ tpc = "host"
    /\ id \in compiled
    /\ \A i \in DOMAIN ModuleOf(id).funcs :
          ModuleOf(id).funcs[i].kind = "import" => ModuleOf(id).funcs[i].from \in instances
    /\ register_module(id)
    /\ register_calls' = IF id \in modules THEN register_calls \cup {id} ELSE register_calls
    /\ InstantiateStart(id)
    /\ UNCHANGED <<compiled, countVars, storeVars, meterVars, lifeVars, jitVars, trampVars, extVars>>

\* The types of the arguments a call is given.
ArgLists == {<<>>, <<"i32">>, <<"f32">>, <<"i32", "i32">>, <<"f32", "f32">>}

\* The message of the trap for a call with got arguments to a function of
\* expected parameters.
ExpectedArguments(expected, got) ==
    "expected " \o ToString(expected) \o " arguments, got " \o ToString(got)

\* A faulty check that compares the types before the number of arguments.
CheckArgumentsTypesFirst(params, args) ==
    IF \E i \in DOMAIN params \cap DOMAIN args : args[i] # params[i]
    THEN "argument type mismatch"
    ELSE IF Len(params) # Len(args)
    THEN ExpectedArguments(Len(params), Len(args))
    ELSE None

\* Func::call: the number and then the types of the arguments are checked
\* against the parameters of the function; None if they fit.
CheckArguments(params, args) ==
    IF Len(params) # Len(args)
    THEN ExpectedArguments(Len(params), Len(args))
    ELSE IF \E i \in DOMAIN params : args[i] # params[i]
    THEN "argument type mismatch"
    ELSE None

\* Func::call of an exported function, from the host.
func_call(id, args) ==
    /\ tpc = "host"
    /\ id \in instances
    /\ \E index \in ModuleOf(id).exports :
          LET error == CheckArguments(TypeOf(id, index).params, args)
          IN  IF error # None
              THEN /\ trap' = [message |-> error, trace |-> <<>>]
                   /\ panic' = NoPanic
                   /\ UNCHANGED <<native_stack, tpc>>
              ELSE Enter(<<HostFrame>>, id, index, frame_info)
    /\ UNCHANGED <<frame_info, modules, instances, regVars, countVars, storeVars, meterVars, lifeVars, jitVars, trampVars, extVars>>

\* The innermost wasm function executes its body, which is one
\* instruction: unreachable, a call, or nothing, and then the function and
\* the callers it was the last instruction of return to the host.
wasm_exec ==
    /\ tpc = "running"
    /\ LET top == native_stack[Len(native_stack)]
           f   == FuncOf(top.module, top.func)
       IN  IF f.op = "unreachable"
           THEN /\ Trapped("unreachable", native_stack, frame_info)
                /\ UNCHANGED native_stack
           ELSE IF f.op = "return"
           THEN /\ native_stack' = <<>>
                /\ tpc' = "host"
                /\ UNCHANGED <<trap, panic>>
           ELSE Enter(native_stack, top.module, f.target, frame_info)
    /\ UNCHANGED <<frame_info, modules, instances, regVars, countVars, storeVars, meterVars, lifeVars, jitVars, trampVars, extVars>>

\* The trap or the panic unwinds the stack and reaches the host.
unwind ==
    /\ tpc \in {"trapped", "panicking"}
    /\ native_stack' = <<>>
    /\ tpc' = "host"
    /\ UNCHANGED <<frame_info, modules, instances, trap, panic, regVars, countVars,
                   storeVars, meterVars, lifeVars, jitVars, trampVars, extVars>>

\* The modules a test compiles for its store, and three stores that hold
\* the modules of several tests.
TestStores ==
    {{"trap_return"}, {"trap_trace"}, {"trap_trace_cb"}, {"stack_overflow"},
     {"pretty"}, {"multi_a", "multi_b"}, {"start_import"}, {"panic_import"},
     {"panic_start"}, {"mismatched"},
     {"trap_trace", "start_import", "mismatched"},
     {"panic_import", "panic_start", "trap_trace"},
     {"mismatched", "trap_return", "stack_overflow"}}

InitTrace ==
    /\ is_async = FALSE
    /\ interruptable = FALSE
    /\ consume_fuel = FALSE
    /\ StoreNew
    /\ StoreNewModules
    /\ NoCode
    /\ compiled \in TestStores
    /\ ConfigLimitsLargest
    /\ add_meter = MeterOff
    /\ yield_meter = MeterOff

NextTrace ==
    \/ \E id \in ModuleIds : instantiate(id)
    \/ \E id \in ModuleIds, args \in ArgLists : func_call(id, args)
    \/ wasm_exec
    \/ unwind

SpecTrace == InitTrace /\ [][NextTrace]_vars

(***************************************************************************)
(* The resource counters.                                                  *)
(***************************************************************************)

\* Bound: the memories, and the tables, a module declares.
MaxPlans == 2

\* The limits a configuration sets.
LimitInputs == {0, 2, UsizeMax}

\* What bump_resource_counts reads of a module: the memories and tables
\* it declares, and how many of them are imported.
ModuleShape(memories, imported_memories, tables, imported_tables) ==
    [memory_plans |-> memories, num_imported_memories |-> imported_memories,
     table_plans |-> tables, num_imported_tables |-> imported_tables]

\* The modules counted: with no memory or table, with one it defines, with
\* one it imports, with one it imports beside one it defines, and with as
\* many as the bound allows.
ModuleShapes ==
    {ModuleShape(0, 0, 0, 0),
     ModuleShape(1, 0, 0, 0), ModuleShape(1, 1, 0, 0), ModuleShape(2, 1, 0, 0),
     ModuleShape(0, 0, 1, 0), ModuleShape(0, 0, 1, 1), ModuleShape(0, 0, 2, 1),
     ModuleShape(MaxPlans, 0, MaxPlans, 0), ModuleShape(MaxPlans, 1, MaxPlans, 1)}

\* usize::saturating_add
saturating_add(a, b) == Min(a + b, UsizeMax)

ResourceLimitExceeded(desc, new) ==
    "resource limit exceeded: " \o desc \o " count too high at " \o ToString(new)

\* A faulty bump that admits a count one above the limit.
bump_off_by_one(slot, max, amt, desc) ==
    LET new == saturating_add(slot, amt)
    IN  IF new > max + 1
        THEN [ok |-> FALSE, slot |-> slot, result |-> ResourceLimitExceeded(desc, new)]
        ELSE [ok |-> TRUE, slot |-> new, result |-> "Ok"]

\* bump, the helper of bump_resource_counts: the new value of the slot
\* and what is returned.
bump(slot, max, amt, desc) ==
    LET new == saturating_add(slot, amt)
    IN  IF new > max
        THEN [ok |-> FALSE, slot |-> slot, result |-> ResourceLimitExceeded(desc, new)]
        ELSE [ok |-> TRUE, slot |-> new, result |-> "Ok"]

\* The memories, or tables, a module defines itself.
defined_plans(plans, imported) == plans - imported

\* Store::bump_resource_counts: the three counters are bumped in turn, and
\* the first one over its limit ends the call with its error.
bump_resource_counts(module) ==
    LET memories == defined_plans(module.memory_plans, module.num_imported_memories)
        tables   == defined_plans(module.table_plans, module.num_imported_tables)
        i == bump(instance_count, max_instances, 1, "instance")
        m == bump(memory_count, max_memories, memories, "memory")
        t == bump(table_count, max_tables, tables, "table")
    IN  /\ instance_count' = i.slot
        /\ memory_count' = IF i.ok THEN m.slot ELSE memory_count
        /\ table_count' = IF i.ok /\ m.ok THEN t.slot ELSE table_count
        /\ bump_result' = IF ~i.ok THEN i.result
                          ELSE IF ~m.ok THEN m.result
                          ELSE t.result
        /\ UNCHANGED <<max_instances, max_memories, max_tables>>
        /\ UNCHANGED <<frame_info, modules, instances, native_stack, tpc, trap, panic,
                       regVars, storeVars, meterVars, lifeVars, jitVars, trampVars, extVars>>

InitCount ==
    /\ is_async = FALSE
    /\ interruptable = FALSE
    /\ consume_fuel = FALSE
    /\ StoreNew
    /\ StoreNewModules
    /\ NoCode
    /\ compiled = {}
    /\ max_instances \in LimitInputs
    /\ max_memories \in LimitInputs
    /\ max_tables \in LimitInputs
    /\ add_meter = MeterOff
    /\ yield_meter = MeterOff

NextCount == \E module \in ModuleShapes : bump_resource_counts(module)

SpecCount == InitCount /\ [][NextCount]_vars

(***************************************************************************)
(* The lifetime of a store, of its instances and of the code of modules.   *)
(***************************************************************************)

\* Bound: the references to the store that exist at once.
MaxRefs == 3
\* Bound: the instances added to the store.
MaxHandles == 2

\* The modules compiled here: one with a function, one with none.
LifeModules == {"trap_return", "start_import"}

\* A faulty choice that always takes the engine's configured allocator.
AllocatorConfigured(instance) == "instance_allocator"

\* The allocator a StoreInstance is deallocated with.
AllocatorOf(instance) ==
    IF instance.use_default_allocator THEN "default_instance_allocator"
    ELSE "instance_allocator"

\* Drop for StoreInner: the deallocate calls for the entries of list, added
\* to those in bag.
RECURSIVE DeallocateAll(_, _)
DeallocateAll(bag, list) ==
    IF list = <<>> THEN bag
    ELSE DeallocateAll(bag (+) SetToBag({[handle |-> Head(list).handle,
                                          allocator |-> AllocatorOf(Head(list))]}),
                       Tail(list))

\* Arc::clone of the code of module id.
CodeCloned(refs, id) == [refs EXCEPT ![id] = @ + 1]

\* A faulty drop that unmaps the code with every reference dropped.
ModuleCodeUnmappedEarly(dropped) ==
    /\ code_refs' = [id \in DOMAIN code_refs |-> code_refs[id] - dropped[id]]
    /\ unmapped' = [id \in DOMAIN unmapped |->
                        IF dropped[id] > 0 THEN unmapped[id] + 1 ELSE unmapped[id]]

\* Drop of dropped[id] references to the code of each module id: Drop for
\* ModuleCode runs, and drops the code memory, with the last reference.
ModuleCodeDropped(dropped) ==
    /\ code_refs' = [id \in DOMAIN code_refs |-> code_refs[id] - dropped[id]]
    /\ unmapped' = [id \in DOMAIN unmapped |->
                        IF dropped[id] > 0 /\ code_refs[id] = dropped[id]
                        THEN unmapped[id] + 1 ELSE unmapped[id]]

\* CompiledModule::new: the module's code memory exists, referred to by
\* the CompiledModule.
module_new(id) ==
    /\ id \notin DOMAIN code_refs
    /\ compiled' = compiled \cup {id}
    /\ code_refs' = code_refs @@ (id :> 1)
    /\ unmapped' = unmapped @@ (id :> 0)
    /\ UNCHANGED <<frame_info, modules, instances, native_stack, tpc, trap, panic,
                   signatures, stack_maps, register_calls, countVars,
                   store_refs, upgraded, instance_list, deallocated,
                   storeVars, meterVars, jitVars, trampVars, extVars>>

\* The CompiledModule is dropped, and with it its reference to the code.
module_drop(id) ==
    /\ id \in compiled
    /\ compiled' = compiled \ {id}
    /\ ModuleCodeDropped([i \in DOMAIN code_refs |-> IF i = id THEN 1 ELSE 0])
    /\ UNCHANGED <<frame_info, modules, instances, native_stack, tpc, trap, panic,
                   signatures, stack_maps, register_calls, countVars,
                   store_refs, upgraded, instance_list, deallocated,
                   storeVars, meterVars, jitVars, trampVars, extVars>>

\* Store::clone, and every item that is handed a clone of the store.
store_clone ==
    /\ store_refs > 0
    /\ store_refs < MaxRefs
    /\ store_refs' = store_refs + 1
    /\ UNCHANGED <<upgraded, instance_list, deallocated, code_refs, unmapped,
                   traceVars, storeVars, meterVars, jitVars, trampVars, extVars>>

\* Store::upgrade of a Weak<StoreInner>: a store only while one is alive.
store_upgrade ==
    /\ store_refs < MaxRefs
    /\ IF store_refs > 0
       THEN store_refs' = store_refs + 1 /\ upgraded' = "Some"
       ELSE store_refs' = store_refs /\ upgraded' = "None"
    /\ UNCHANGED <<instance_list, deallocated, code_refs, unmapped,
                   traceVars, storeVars, meterVars, jitVars, trampVars, extVars>>

\* Store::register_module through a reference to the store: the set of
\* modules takes a reference to the code it does not hold yet.
store_register_module(id) ==
    /\ store_refs > 0
    /\ id \in compiled
    /\ register_module(id)
    /\ register_calls' = IF id \in modules THEN register_calls \cup {id} ELSE register_calls
    /\ code_refs' = IF id \in modules THEN code_refs ELSE CodeCloned(code_refs, id)
    /\ UNCHANGED <<instances, native_stack, tpc, trap, panic, compiled, countVars,
                   store_refs, upgraded, instance_list, deallocated, unmapped,
                   storeVars, meterVars, jitVars, trampVars, extVars>>

\* CompiledModule::instantiate and Store::add_instance: a new instance of a
\* registered module, which holds a reference to the module's code, is
\* pushed with its allocator flag; the StoreInstanceHandle returned holds a
\* clone of the store.
store_add_instance(id, use_default_allocator) ==
    /\ store_refs > 0
    /\ store_refs < MaxRefs
    /\ id \in compiled
    /\ id \in modules
    /\ Len(instance_list) < MaxHandles
    /\ instance_list' = Append(instance_list,
                               [handle |-> Len(instance_list) + 1, code |-> id,
                                use_default_allocator |-> use_default_allocator])
    /\ instances' = instances \cup {id}
    /\ code_refs' = CodeCloned(code_refs, id)
    /\ store_refs' = store_refs + 1
    /\ UNCHANGED <<frame_info, modules, native_stack, tpc, trap, panic, regVars,
                   countVars, upgraded, deallocated, unmapped, storeVars, meterVars, jitVars, trampVars, extVars>>

\* A faulty drop that runs Drop for StoreInner while references remain.
LastReferenceEarly(refs) == refs <= 2

\* The reference dropped is the last one.
LastReference(refs) == refs = 1

\* Drop for StoreInner: every instance is deallocated by its allocator,
\* which drops the instance's reference to its code; then the fields are
\* dropped, among them the frame information and the set of modules.
StoreInnerDrop ==
    /\ deallocated' = DeallocateAll(deallocated, instance_list)
    /\ ModuleCodeDropped(
           [id \in DOMAIN code_refs |->
               Cardinality({i \in DOMAIN instance_list : instance_list[i].code = id})
               + (IF id \in modules THEN 1 ELSE 0)])
    /\ instance_list' = <<>>
    /\ instances' = {}
    /\ modules' = {}
    /\ frame_info' = EmptyBag
    /\ signatures' = <<>>
    /\ stack_maps' = {}

\* A Store, or an item that holds one, is dropped.
store_drop ==
    /\ store_refs > 0
    /\ store_refs' = store_refs - 1
    /\ IF LastReference(store_refs)
       THEN StoreInnerDrop
       ELSE UNCHANGED <<instance_list, instances, modules, frame_info, signatures,
                       stack_maps, deallocated, code_refs, unmapped>>
    /\ UNCHANGED <<native_stack, tpc, trap, panic, compiled, register_calls, countVars,
                   upgraded, storeVars, meterVars, jitVars, trampVars, extVars>>

InitLife ==
    /\ is_async = FALSE
    /\ interruptable = FALSE
    /\ consume_fuel = FALSE
    /\ StoreNew
    /\ StoreNewModules
    /\ NoCode
    /\ compiled = {}
    /\ ConfigLimitsLargest
    /\ add_meter = MeterOff
    /\ yield_meter = MeterOff

NextLife ==
    \/ \E id \in LifeModules : module_new(id)
    \/ \E id \in LifeModules : module_drop(id)
    \/ store_clone
    \/ store_upgrade
    \/ \E id \in LifeModules : store_register_module(id)
    \/ \E id \in LifeModules, use_default_allocator \in BOOLEAN :
           store_add_instance(id, use_default_allocator)
    \/ store_drop

SpecLife == InitLife /\ [][NextLife]_vars

(***************************************************************************)
(* CompiledModule: from_artifacts, build_code_memory and                   *)
(* to_compilation_artifacts.  An object image is a sequence of cells: the  *)
(* ELF header ("elf", "elf@" once patch_loadable_file has written the code *)
(* range into it), code bytes ("text") and relocation sites ("rel", "abs"  *)
(* once link_module has written an address into them).                     *)
(***************************************************************************)

\* Bound: the from_artifacts calls made.
MaxBuilds == 2
\* Bound: the InstanceHandles made from one CompiledModule.
MaxInstantiations == 1

\* The cells of a compiled function and of a trampoline.
FunctionCells == <<"text", "rel">>
TrampolineCells == <<"text">>

RECURSIVE Repeat(_, _)
Repeat(cells, n) == IF n = 0 THEN <<>> ELSE cells \o Repeat(cells, n - 1)

\* The object the compiler emits for funcs defined functions and
\* sigs trampolines.
ObjectOf(funcs, sigs) ==
    <<"elf">> \o Repeat(FunctionCells, funcs) \o Repeat(TrampolineCells, sigs)

\* CompilationArtifacts, as CompilationArtifacts::build makes them; defect
\* is what, if anything, link_module, patch_loadable_file or
\* ensure_supported_elf_format will reject in the object.
Artifacts(funcs, sigs, debug_info, defect) ==
    [module |-> [funcs |-> funcs, signatures |-> sigs],
     obj |-> ObjectOf(funcs, sigs),
     defect |-> defect,
     unwind_info |-> funcs + sigs,
     data_initializers |-> <<funcs>>,
     traps |-> [f \in 1 .. funcs |-> "unreachable"],
     stack_maps |-> [f \in 1 .. funcs |-> {}],
     address_transform |-> [f \in 1 .. funcs |-> f],
     debug_info |-> debug_info]

SourceArtifacts ==
    {Artifacts(0, 1, FALSE, "none"), Artifacts(1, 1, TRUE, "none"),
     Artifacts(1, 2, FALSE, "link"), Artifacts(1, 1, FALSE, "patch"),
     Artifacts(2, 1, TRUE, "elf"), Artifacts(1, 2, FALSE, "elf")}

Rewrite(cells, from, to) == [i \in DOMAIN cells |-> IF cells[i] = from THEN to ELSE cells[i]]

\* link_module writes the addresses into the relocation sites, and
\* unlink_module takes them out again.
link_module(obj) == Rewrite(obj, "rel", "abs")
unlink_module(obj) == Rewrite(obj, "abs", "rel")

\* patch_loadable_file writes the code range into the ELF header, and
\* sanitize_loadable_file takes it out again.
patch_loadable_file(obj) == Rewrite(obj, "elf", "elf@")
sanitize_loadable_file(obj) == Rewrite(obj, "elf@", "elf")

\* Allocation::funcs and Allocation::trampolines: where in the image the
\* function, and the trampoline, of each index starts.
AllocationFuncs(module) == [i \in 1 .. module.funcs |-> 2 + (i - 1) * Len(FunctionCells)]
AllocationTrampolines(module) ==
    [i \in 1 .. module.signatures |->
        2 + module.funcs * Len(FunctionCells) + (i - 1) * Len(TrampolineCells)]

\* The key of the code memory the next from_artifacts makes.
NextKey == Cardinality(DOMAIN images) + 1

\* from_artifacts is entered and build_code_memory makes a CodeMemory.
FromArtifactsBegin(artifacts, of) ==
    /\ building = NoBuild
    /\ NextKey <= MaxBuilds
    /\ building' = [at |-> "new", key |-> NextKey, artifacts |-> artifacts, of |-> of]
    /\ images' = images @@ (NextKey :> [bytes |-> <<>>, published |-> FALSE])
    /\ unmapped' = unmapped @@ (NextKey :> 0)
    /\ code_refs' = code_refs @@ (NextKey :> 0)
    /\ UNCHANGED <<built, extracted, from_artifacts_result, store_refs, upgraded,
                   instance_list, deallocated, traceVars, storeVars, meterVars, trampVars, extVars>>

\* CompiledModule::from_artifacts of artifacts the compiler built.
from_artifacts(artifacts) == FromArtifactsBegin(artifacts, 0)

\* CompiledModule::from_artifacts of the artifacts last extracted.
from_artifacts_extracted ==
    /\ extracted # NoArtifacts
    /\ FromArtifactsBegin(extracted.artifacts, extracted.of)

\* A faulty exit that forgets the code memory.
FromArtifactsLeaks(message) ==
    /\ building' = NoBuild
    /\ from_artifacts_result' = message
    /\ UNCHANGED unmapped

\* from_artifacts returns an error: the CodeMemory, still a local value,
\* is dropped.
FromArtifactsFails(message) ==
    /\ building' = NoBuild
    /\ from_artifacts_result' = message
    /\ unmapped' = [unmapped EXCEPT ![building.key] = @ + 1]

\* build_code_memory: allocate_for_object copies the object into the code
\* memory, or fails.
allocate_for_object ==
    /\ building.at = "new"
    /\ \/ /\ images' = [images EXCEPT ![building.key].bytes = building.artifacts.obj]
          /\ building' = [building EXCEPT !.at = "allocated"]
          /\ UNCHANGED <<unmapped, from_artifacts_result>>
       \/ /\ FromArtifactsFails("failed to build code memory for functions: allocation")
          /\ UNCHANGED images
    /\ UNCHANGED <<built, extracted, store_refs, upgraded, instance_list, deallocated,
                   code_refs, traceVars, storeVars, meterVars, trampVars, extVars>>

\* build_code_memory: link_module writes into the allocation, or fails.
build_link_module ==
    /\ building.at = "allocated"
    /\ IF building.artifacts.defect = "link"
       THEN /\ FromArtifactsFails("failed to build code memory for functions: link")
            /\ UNCHANGED images
       ELSE /\ images' = [images EXCEPT ![building.key].bytes = link_module(@)]
            /\ building' = [building EXCEPT !.at = "linked"]
            /\ UNCHANGED <<unmapped, from_artifacts_result>>
    /\ UNCHANGED <<built, extracted, store_refs, upgraded, instance_list, deallocated,
                   code_refs, traceVars, storeVars, meterVars, trampVars, extVars>>

\* build_code_memory: patch_loadable_file writes into the allocation, or
\* fails.
build_patch_loadable_file ==
    /\ building.at = "linked"
    /\ IF building.artifacts.defect = "patch"
       THEN /\ FromArtifactsFails("failed to build code memory for functions: patch")
            /\ UNCHANGED images
       ELSE /\ images' = [images EXCEPT ![building.key].bytes = patch_loadable_file(@)]
            /\ building' = [building EXCEPT !.at = "patched"]
            /\ UNCHANGED <<unmapped, from_artifacts_result>>
    /\ UNCHANGED <<built, extracted, store_refs, upgraded, instance_list, deallocated,
                   code_refs, traceVars, storeVars, meterVars, trampVars, extVars>>

\* A faulty build_code_memory that returns without publishing.
build_returns_unpublished ==
    /\ building.at = "patched"
    /\ building' = [building EXCEPT !.at = "built"]
    /\ UNCHANGED <<images, built, extracted, from_artifacts_result, lifeVars,
                   traceVars, storeVars, meterVars, trampVars, extVars>>

\* build_code_memory: the code memory is published (CodeMemory::publish)
\* and returned.
build_publish ==
    /\ building.at = "patched"
    /\ images' = [images EXCEPT ![building.key].published = TRUE]
    /\ building' = [building EXCEPT !.at = "built"]
    /\ UNCHANGED <<built, extracted, from_artifacts_result, lifeVars,
                   traceVars, storeVars, meterVars, trampVars, extVars>>

\* from_artifacts after build_code_memory: with debug_info the image is
\* checked, which may fail, and registered; then the CompiledModule is
\* made, whose ModuleCode owns the code memory.
from_artifacts_finish ==
    /\ building.at = "built"
    /\ LET a == building.artifacts
       IN  IF a.debug_info /\ a.defect = "elf"
           THEN /\ FromArtifactsFails("Debug information error")
                /\ UNCHANGED <<built, compiled, code_refs>>
           ELSE /\ built' = built @@
                      (building.key :>
                          [module |-> a.module,
                           finished_functions |-> AllocationFuncs(a.module),
                           trampolines |-> AllocationTrampolines(a.module),
                           data_initializers |-> a.data_initializers,
                           traps |-> a.traps,
                           stack_maps |-> a.stack_maps,
                           address_transform |-> a.address_transform,
                           unwind_info |-> a.unwind_info,
                           defect |-> a.defect,
                           dbg_jit_registration |-> a.debug_info,
                           of |-> building.of])
                /\ compiled' = compiled \cup {building.key}
                /\ code_refs' = [code_refs EXCEPT ![building.key] = 1]
                /\ building' = NoBuild
                /\ from_artifacts_result' = "Ok"
                /\ UNCHANGED unmapped
    /\ UNCHANGED <<images, extracted, store_refs, upgraded, instance_list, deallocated,
                   frame_info, modules, instances, native_stack, tpc, trap, panic,
                   signatures, stack_maps, register_calls, countVars, storeVars, meterVars, trampVars, extVars>>

\* Faulty artifacts that say the module has no debug information.
ArtifactsWithoutDebug(key, obj) ==
    [module |-> built[key].module,
     obj |-> obj,
     defect |-> built[key].defect,
     unwind_info |-> built[key].unwind_info,
     data_initializers |-> built[key].data_initializers,
     traps |-> built[key].traps,
     stack_maps |-> built[key].stack_maps,
     address_transform |-> built[key].address_transform,
     debug_info |-> FALSE]

\* The CompilationArtifacts of the CompiledModule of key, around the
\* object obj.
ArtifactsOf(key, obj) ==
    [module |-> built[key].module,
     obj |-> obj,
     defect |-> built[key].defect,
     unwind_info |-> built[key].unwind_info,
     data_initializers |-> built[key].data_initializers,
     traps |-> built[key].traps,
     stack_maps |-> built[key].stack_maps,
     address_transform |-> built[key].address_transform,
     debug_info |-> built[key].dbg_jit_registration]

\* A faulty to_compilation_artifacts that unlinks the image where it is.
to_compilation_artifacts_in_place(key) ==
    /\ key \in compiled
    /\ images' = [images EXCEPT ![key].bytes = sanitize_loadable_file(unlink_module(@))]
    /\ extracted' =
          [of |-> key,
           artifacts |-> ArtifactsOf(key, sanitize_loadable_file(unlink_module(images[key].bytes)))]
    /\ UNCHANGED <<building, built, from_artifacts_result, lifeVars,
                   traceVars, storeVars, meterVars, trampVars, extVars>>

\* CompiledModule::to_compilation_artifacts: a copy of the image is
\* unlinked and sanitized; the rest is cloned.
to_compilation_artifacts(key) ==
    /\ key \in compiled
    /\ extracted' =
          [of |-> key,
           artifacts |-> ArtifactsOf(key, sanitize_loadable_file(unlink_module(images[key].bytes)))]
    /\ UNCHANGED <<building, images, built, from_artifacts_result, lifeVars,
                   traceVars, storeVars, meterVars, trampVars, extVars>>

\* CompiledModule::instantiate: the InstanceHandle made holds a reference
\* to the module's code.
compiled_instantiate(key) ==
    /\ key \in compiled
    /\ code_refs[key] <= MaxInstantiations
    /\ code_refs' = CodeCloned(code_refs, key)
    /\ UNCHANGED <<store_refs, upgraded, instance_list, deallocated, unmapped,
                   traceVars, storeVars, meterVars, jitVars, trampVars, extVars>>

\* An instance made from the module is deallocated.
instance_drop(key) ==
    /\ key \in DOMAIN code_refs
    /\ code_refs[key] > (IF key \in compiled THEN 1 ELSE 0)
    /\ ModuleCodeDropped([i \in DOMAIN code_refs |-> IF i = key THEN 1 ELSE 0])
    /\ UNCHANGED <<store_refs, upgraded, instance_list, deallocated,
                   traceVars, storeVars, meterVars, jitVars, trampVars, extVars>>

InitJit ==
    /\ is_async = FALSE
    /\ interruptable = FALSE
    /\ consume_fuel = FALSE
    /\ StoreNew
    /\ StoreNewModules
    /\ NoCode
    /\ compiled = {}
    /\ ConfigLimitsLargest
    /\ add_meter = MeterOff
    /\ yield_meter = MeterOff

NextJit ==
    \/ \E artifacts \in SourceArtifacts : from_artifacts(artifacts)
    \/ from_artifacts_extracted
    \/ allocate_for_object
    \/ build_link_module
    \/ build_patch_loadable_file
    \/ build_publish
    \/ from_artifacts_finish
    \/ \E key \in 1 .. MaxBuilds : to_compilation_artifacts(key)
    \/ \E key \in 1 .. MaxBuilds : compiled_instantiate(key)
    \/ \E key \in 1 .. MaxBuilds : instance_drop(key)
    \/ \E key \in 1 .. MaxBuilds : module_drop(key)

SpecJit == InitJit /\ [][NextJit]_vars

(***************************************************************************)
(* Trampolines: make_trampoline and its RelocSink, the trampoline loop of  *)
(* Compiler::compile, and the maps build_code_memory makes from an         *)
(* allocation.  A trampoline is kept as the instructions make_trampoline   *)
(* builds, and a call of it runs them one at a time over a values_vec.     *)
(* Indices are zero-based as in the source; entry i of a PrimaryMap is     *)
(* element i + 1 of its sequence.                                          *)
(***************************************************************************)

\* Bound: the parameters of a signature, vmctx and caller_vmctx included.
MaxParams == 4
\* Bound: the results of a signature.
MaxResults == 2
\* Bound: the signatures of a module.
MaxSignatures == 2
\* Bound: the relocations code generation reports for one trampoline.
MaxRelocs == 2

\* std::mem::size_of::<u128>()
U128Size == 16
ValueSizes == {8, U128Size}

ValueType(i) == IF i % 2 = 0 THEN "i32" ELSE "i64"

\* A wasm signature: the first two parameters are vmctx and caller_vmctx.
Signature(params, results) ==
    [params |-> [i \in 1 .. params |-> IF i <= 2 THEN "pointer" ELSE ValueType(i)],
     results |-> [j \in 1 .. results |-> ValueType(j)]]

NumSignatures == (MaxParams - 1) * (MaxResults + 1)
SignatureAt(k) == Signature(2 + (k \div (MaxResults + 1)), k % (MaxResults + 1))
Signatures == {SignatureAt(k) : k \in 0 .. NumSignatures - 1}

\* Modules: their signatures, the functions they define and import.
TrampolineModules ==
    {[signatures |-> [i \in 1 .. n |-> SignatureAt((a + i - 1) % NumSignatures)],
      funcs |-> f, imported |-> m] :
        a \in 0 .. NumSignatures - 1, n \in 0 .. MaxSignatures, f \in 0 .. 2, m \in 0 .. 1}

\* What code generation may report to the RelocSink.
RelocEvents ==
    {[kind |-> "block", name |-> "none"],
     [kind |-> "external", name |-> "LibCall"],
     [kind |-> "external", name |-> "User"],
     [kind |-> "constant", name |-> "none"],
     [kind |-> "jt", name |-> "none"]}

RECURSIVE SeqsUpTo(_, _)
SeqsUpTo(S, n) ==
    IF n = 0 THEN {<<>>}
    ELSE LET shorter == SeqsUpTo(S, n - 1)
         IN  shorter \cup {Append(s, x) : s \in shorter, x \in S}

RelocEventSeqs == SeqsUpTo(RelocEvents, MaxRelocs)

RelocSinkDefault == [relocs |-> <<>>, panic |-> "none"]

Panic(sink, message) == [sink EXCEPT !.panic = message]

reloc_block(sink, event) ==
    Panic(sink, "trampoline compilation should not produce block relocs")

\* A faulty sink that records a relocation against any external name.
reloc_external_any(sink, event) ==
    [sink EXCEPT !.relocs = Append(@, [reloc_target |-> event.name])]

reloc_external(sink, event) ==
    IF event.name = "LibCall"
    THEN [sink EXCEPT !.relocs = Append(@, [reloc_target |-> "LibCall"])]
    ELSE Panic(sink, "unrecognized external name")

reloc_constant(sink, event) ==
    Panic(sink, "trampoline compilation should not produce constant relocs")

reloc_jt(sink, event) ==
    Panic(sink, "trampoline compilation should not produce jump table relocs")

\* compile_and_emit reports events to the sink; a panic ends it.
RECURSIVE Emit(_, _)
Emit(sink, events) ==
    IF events = <<>> \/ sink.panic # "none" THEN sink
    ELSE LET event == Head(events)
             next == CASE event.kind = "block" -> reloc_block(sink, event)
                       [] event.kind = "external" -> reloc_external(sink, event)
                       [] event.kind = "constant" -> reloc_constant(sink, event)
                       [] event.kind = "jt" -> reloc_jt(sink, event)
         IN  Emit(next, Tail(events))

\* The values of the trampoline's block: its parameters, what it loaded
\* and what the callee returned.
Param(n) == [ref |-> "param", n |-> n]
Loaded(i) == [ref |-> "load", n |-> i]
Result(j) == [ref |-> "result", n |-> j]

vmctx_ptr_val == Param(0)
caller_vmctx_ptr_val == Param(1)
callee_value == Param(2)
values_vec_ptr_val == Param(3)

\* A faulty offset that counts vmctx and caller_vmctx as buffer slots.
LoadOffsetUnshifted(i, value_size) == i * value_size

\* Where callee argument i >= 2 is loaded from.
LoadOffset(i, value_size) == (i - 2) * value_size

\* Where result i is stored.
StoreOffset(i, value_size) == i * value_size

\* The argument the trampoline passes for parameter i of the signature.
CalleeArg(i) ==
    IF i = 0 THEN vmctx_ptr_val
    ELSE IF i = 1 THEN caller_vmctx_ptr_val
    ELSE Loaded(i)

\* The instructions make_trampoline builds in block0.
TrampolineBody(signature, value_size) ==
    LET k == Len(signature.params)
        m == Len(signature.results)
        loads == [n \in 1 .. (IF k > 2 THEN k - 2 ELSE 0) |->
                     [op |-> "load", ty |-> signature.params[n + 2],
                      base |-> values_vec_ptr_val,
                      offset |-> LoadOffset(n + 1, value_size), dst |-> n + 1]]
        call_inst == [op |-> "call_indirect", callee |-> callee_value,
                 args |-> [p \in 1 .. k |-> CalleeArg(p - 1)], results |-> m]
        stores == [j \in 1 .. m |->
                      [op |-> "store", src |-> Result(j - 1),
                       base |-> values_vec_ptr_val,
                       offset |-> StoreOffset(j - 1, value_size)]]
    IN  loads \o <<call_inst>> \o stores \o <<[op |-> "return"]>>

MakeFailures == {"none", "compile_and_emit", "create_unwind_info", "allocate_for_function"}

\* make_trampoline: the body is built and compiled, which reports events
\* to the RelocSink; a failing step returns an error.
make_trampoline(signature, value_size, events, fail) ==
    LET sink == Emit(RelocSinkDefault, events)
        body == TrampolineBody(signature, value_size)
    IN  IF fail = "compile_and_emit"
        THEN [outcome |-> "Err", body |-> <<>>, relocs |-> <<>>, events |-> <<>>]
        ELSE IF sink.panic # "none"
        THEN [outcome |-> "panic", body |-> <<>>, relocs |-> <<>>, events |-> events]
        ELSE IF fail # "none"
        THEN [outcome |-> "Err", body |-> <<>>, relocs |-> <<>>, events |-> events]
        ELSE [outcome |-> "Ok", body |-> body, relocs |-> sink.relocs, events |-> events]

\* A faulty push that puts the new entry first.
PushFront(map, entry) == <<entry>> \o map

\* PrimaryMap::push
Push(map, entry) == Append(map, entry)

CompileFailures == {"none", "compile_module", "allocate_functions"}

\* Compiler::compile up to the trampolines: the bodies are compiled and
\* allocate_functions places them, which allocates nothing for a module
\* without functions.
compile_begin ==
    /\ NoTrampolines
    /\ \E module \in TrampolineModules, fail \in CompileFailures :
           /\ fail = "allocate_functions" => module.funcs > 0
           /\ compile_state' =
                 IF fail = "none"
                 THEN [NoCompile EXCEPT !.at = "trampolines", !.module = module,
                                        !.finished_functions = module.funcs]
                 ELSE [NoCompile EXCEPT !.at = "Err", !.module = module]
    /\ call_state' = NoCall
    /\ code_maps' = NoMaps
    /\ UNCHANGED <<storeVars, meterVars, traceVars, lifeVars, jitVars, extVars>>

\* Compiler::compile, one turn of the loop over the signatures.
compile_trampoline ==
    /\ compile_state.at = "trampolines"
    /\ Len(compile_state.trampolines) < Len(compile_state.module.signatures)
    /\ \E events \in RelocEventSeqs, fail \in MakeFailures :
           LET index == Len(compile_state.trampolines)
               made == make_trampoline(compile_state.module.signatures[index + 1],
                                       U128Size, events, fail)
           IN  compile_state' =
                  IF made.outcome = "Ok"
                  THEN [compile_state EXCEPT
                           !.trampolines = Push(@, [body |-> made.body, index |-> index]),
                           !.trampoline_relocations =
                               IF Len(made.relocs) > 0 THEN @ @@ (index :> made.relocs) ELSE @]
                  ELSE [compile_state EXCEPT !.at = made.outcome]
    /\ UNCHANGED <<call_state, code_maps, storeVars, meterVars, traceVars, lifeVars, jitVars, extVars>>

\* Compiler::compile after the loop: the debug image, made only when
\* there are functions, may fail.
compile_finish ==
    /\ compile_state.at = "trampolines"
    /\ Len(compile_state.trampolines) = Len(compile_state.module.signatures)
    /\ \E failed \in BOOLEAN :
           /\ failed => compile_state.finished_functions > 0
           /\ compile_state' = [compile_state EXCEPT !.at = IF failed THEN "Err" ELSE "Ok"]
    /\ UNCHANGED <<call_state, code_maps, storeVars, meterVars, traceVars, lifeVars, jitVars, extVars>>

\* Module::defined_func_index; -1 is None.
defined_func_index(module, i) == IF i < module.imported THEN -1 ELSE i - module.imported

\* What an allocation's funcs() and trampolines() may yield for n entries
\* starting at index first: the pairs in index order, or in another order.
Yields(first, n) ==
    {[k \in 1 .. n |-> [index |-> first + k - 1, ptr |-> first + k - 1]],
     [k \in 1 .. n |-> [index |-> first + n - k, ptr |-> first + n - k]],
     [k \in 1 .. n |-> [index |-> k - 1, ptr |-> first + k - 1]]}

\* The assert_eq! of each turn of a loop: the key push returns is the
\* key expected for the index the allocation gave.
KeysAsserted(yields, keys) == \A k \in DOMAIN yields : k - 1 = keys[k]

PushAll(yields) == [k \in DOMAIN yields |-> yields[k].ptr]

\* build_code_memory, the loops that make finished_functions and
\* trampolines from the allocation.
build_code_memory_maps ==
    /\ NoTrampolines
    /\ \E module \in TrampolineModules :
           \E funcs \in Yields(module.imported, module.funcs),
              sigs \in Yields(0, Len(module.signatures)) :
               LET func_keys == [k \in DOMAIN funcs |->
                                    defined_func_index(module, funcs[k].index)]
                   sig_keys == [k \in DOMAIN sigs |-> sigs[k].index]
               IN  code_maps' =
                      IF KeysAsserted(funcs, func_keys) /\ KeysAsserted(sigs, sig_keys)
                      THEN [at |-> "Ok", module |-> module, funcs |-> funcs, sigs |-> sigs,
                            finished_functions |-> PushAll(funcs),
                            trampolines |-> PushAll(sigs)]
                      ELSE [NoMaps EXCEPT !.at = "panic", !.module = module,
                                          !.funcs = funcs, !.sigs = sigs]
    /\ compile_state' = NoCompile
    /\ call_state' = NoCall
    /\ UNCHANGED <<storeVars, meterVars, traceVars, lifeVars, jitVars, extVars>>

\* The buffer the caller passes: a slot for each argument after the two
\* pointers, or for each result if those are more.
ValuesVec(signature, value_size) ==
    LET args == IF Len(signature.params) > 2 THEN Len(signature.params) - 2 ELSE 0
        slots == IF args > Len(signature.results) THEN args ELSE Len(signature.results)
    IN  [o \in {s * value_size : s \in 0 .. slots - 1} |-> [val |-> "arg", n |-> o]]

\* make_trampoline called for one signature, and the trampoline entered.
trampoline_made ==
    /\ NoTrampolines
    /\ \E signature \in Signatures, value_size \in ValueSizes,
          events \in RelocEventSeqs, fail \in MakeFailures :
           LET made == make_trampoline(signature, value_size, events, fail)
           IN  call_state' =
                  IF made.outcome = "Ok"
                  THEN [NoCall EXCEPT !.at = "running", !.signature = signature,
                                      !.value_size = value_size, !.body = made.body,
                                      !.relocs = made.relocs, !.events = made.events,
                                      !.pc = 1,
                                      !.values_vec = ValuesVec(signature, value_size)]
                  ELSE [NoCall EXCEPT !.at = made.outcome, !.signature = signature,
                                      !.value_size = value_size, !.events = made.events]
    /\ compile_state' = NoCompile
    /\ code_maps' = NoMaps
    /\ UNCHANGED <<storeVars, meterVars, traceVars, lifeVars, jitVars, extVars>>

Running(op) ==
    /\ call_state.at = "running"
    /\ call_state.body[call_state.pc].op = op

Instruction == call_state.body[call_state.pc]

\* The value a reference stands for in the running trampoline.
ValueOf(ref) ==
    CASE ref.ref = "param" -> [val |-> "param", n |-> ref.n]
      [] ref.ref = "load" -> call_state.loaded[ref.n]
      [] ref.ref = "result" -> [val |-> "ret", n |-> ref.n]

\* A load outside the buffer reads what is not an argument.
LoadAt(values_vec, offset) ==
    IF offset \in DOMAIN values_vec THEN values_vec[offset] ELSE [val |-> "outside", n |-> offset]

exec_load ==
    /\ Running("load")
    /\ call_state' = [call_state EXCEPT
                         !.loaded = @ @@ (Instruction.dst :>
                                            LoadAt(call_state.values_vec, Instruction.offset)),
                         !.pc = @ + 1]
    /\ UNCHANGED <<compile_state, code_maps, storeVars, meterVars, traceVars, lifeVars, jitVars, extVars>>

exec_call_indirect ==
    /\ Running("call_indirect")
    /\ call_state' = [call_state EXCEPT
                         !.callee_args = [p \in DOMAIN Instruction.args |->
                                             ValueOf(Instruction.args[p])],
                         !.called = Append(@, ValueOf(Instruction.callee)),
                         !.pc = @ + 1]
    /\ UNCHANGED <<compile_state, code_maps, storeVars, meterVars, traceVars, lifeVars, jitVars, extVars>>

exec_store ==
    /\ Running("store")
    /\ call_state' = [call_state EXCEPT
                         !.values_vec = (Instruction.offset :> ValueOf(Instruction.src)) @@ @,
                         !.pc = @ + 1]
    /\ UNCHANGED <<compile_state, code_maps, storeVars, meterVars, traceVars, lifeVars, jitVars, extVars>>

exec_return ==
    /\ Running("return")
    /\ call_state' = [call_state EXCEPT !.at = "returned"]
    /\ UNCHANGED <<compile_state, code_maps, storeVars, meterVars, traceVars, lifeVars, jitVars, extVars>>

InitTramp ==
    /\ is_async = FALSE
    /\ interruptable = FALSE
    /\ consume_fuel = FALSE
    /\ StoreNew
    /\ StoreNewModules
    /\ NoCode
    /\ compiled = {}
    /\ ConfigLimitsLargest
    /\ add_meter = MeterOff
    /\ yield_meter = MeterOff

NextTramp ==
    \/ compile_begin
    \/ compile_trampoline
    \/ compile_finish
    \/ build_code_memory_maps
    \/ trampoline_made
    \/ exec_load
    \/ exec_call_indirect
    \/ exec_store
    \/ exec_return

SpecTramp == InitTramp /\ [][NextTramp]_vars

(***************************************************************************)
(* Several fibers on one store.  Each on_fiber call has its fiber and its  *)
(* FiberFuture; a future is polled and dropped by its owner: the executor, *)
(* or the future that block_on is polling on another fiber (a nested       *)
(* call).  A future that block_on polls drops the fibers it started        *)
(* before it completes.  current_suspend and current_poll_cx hold "null"   *)
(* or the name of a fiber's Suspend and of a poll's Context.               *)
(***************************************************************************)

\* Bound: the on_fiber calls made on the store.
MaxFibers == 3

FiberName(i) == "fiber" \o ToString(i)

\* The Context the executor polls the task of a fiber with.
ContextOf(f) == "cx of " \o f

\* A fiber that was never resumed, and the owner of its future.
NewFiber(owner) == [at |-> "new", owner |-> owner, prev |-> "null",
                    suspend |-> "null", cx |-> "null"]

\* The fiber now running, and who is polling or dropping futures now: the
\* executor when no fiber runs, otherwise the future polled by block_on on
\* the running fiber.
Top == fiber_stack[Len(fiber_stack)]
Here == IF fiber_stack = <<>> THEN "executor" ELSE Top.fiber
MayPoll == IF fiber_stack = <<>> THEN TRUE ELSE fibers[Top.fiber].at = "polling"

\* The fibers started, and not finished, by futures polled on fiber f.
RECURSIVE Descendants(_)
Descendants(f) ==
    LET children == {g \in DOMAIN fibers : fibers[g].owner = f
                                        /\ fibers[g].at \in {"new", "suspended"}}
    IN  children \cup UNION {Descendants(g) : g \in children}

\* A faulty Reset that leaves the cell as it is.
ResetKeeps(cell, saved) == cell

\* Drop for Reset: the cell gets the saved value back.
Reset(cell, saved) == saved

\* Everything of the store but the two cells and the fibers.
fiberRest == <<is_async, interruptable, consume_fuel, interrupted, irq_requested,
               interrupts_fuel_consumed, fuel_adj, out_of_gas_behavior, pc, wpc,
               future_alive, blocking, resume_val, poll_result, result, meterVars,
               traceVars, lifeVars, jitVars, trampVars, handleVars, linkVars>>

\* Store::on_fiber up to the creation of the FiberFuture: nothing runs.
Fiber_new ==
    /\ MayPoll
    /\ Cardinality(DOMAIN fibers) < MaxFibers
    /\ fibers' = fibers @@ (FiberName(Cardinality(DOMAIN fibers) + 1) :> NewFiber(Here))
    /\ UNCHANGED <<current_suspend, current_poll_cx, fiber_stack, fiberRest>>

\* FiberFuture::poll: the Context is installed and the fiber resumed with
\* Ok.  A new fiber passes keep_going, installs its Suspend and runs the
\* function; a suspended one returns from suspend into block_on's loop,
\* which takes the Context and polls its future again.
FiberFuture_poll ==
    /\ MayPoll
    /\ \E f \in DOMAIN fibers :
          LET cx == IF fiber_stack = <<>> THEN ContextOf(f) ELSE fibers[Top.fiber].cx
              prev == current_poll_cx
          IN  /\ fibers[f].owner = Here
              /\ fiber_stack' = Append(fiber_stack, [fiber |-> f, prev |-> prev])
              /\ \/ /\ fibers[f].at = "new"
                    /\ fibers' = [fibers EXCEPT ![f].at = "running",
                                                ![f].prev = current_suspend]
                    /\ current_suspend' = f
                    /\ current_poll_cx' = cx
                 \/ /\ fibers[f].at = "suspended"
                    /\ fibers' = [fibers EXCEPT ![f].at =
                                     IF cx = "null" THEN "panic" ELSE "polling",
                                                ![f].cx = cx]
                    /\ current_poll_cx' = "null"
                    /\ UNCHANGED current_suspend
    /\ UNCHANGED fiberRest

\* Store::block_on, called by the function running on a fiber, up to the
\* first poll of its future: it takes the Suspend and then the Context out
\* of the cells, and asserts that neither is null.
block_on ==
    /\ fiber_stack # <<>>
    /\ fibers[Top.fiber].at = "running"
    /\ fibers' = [fibers EXCEPT ![Top.fiber].at =
                     IF current_suspend = "null" \/ current_poll_cx = "null"
                     THEN "panic" ELSE "polling",
                                ![Top.fiber].suspend = current_suspend,
                                ![Top.fiber].cx = current_poll_cx]
    /\ current_suspend' = "null"
    /\ current_poll_cx' = "null"
    /\ UNCHANGED <<fiber_stack, fiberRest>>

\* block_on's future is Ready: the Context goes back into its cell, and on
\* return the Suspend goes back into its cell.
block_on_ready ==
    /\ fiber_stack # <<>>
    /\ fibers[Top.fiber].at = "polling"
    /\ Descendants(Top.fiber) = {}
    /\ fibers' = [fibers EXCEPT ![Top.fiber].at = "running",
                                ![Top.fiber].suspend = "null",
                                ![Top.fiber].cx = "null"]
    /\ current_poll_cx' = Reset(current_poll_cx, fibers[Top.fiber].cx)
    /\ current_suspend' = Reset(current_suspend, fibers[Top.fiber].suspend)
    /\ UNCHANGED <<fiber_stack, fiberRest>>

\* block_on's future is Pending: the Context goes back into its cell and
\* block_on suspends through the Suspend it took, which switches out of the
\* fiber that Suspend belongs to; the poll that resumed the fiber returns
\* Pending and puts back the Context it found.
block_on_pending ==
    /\ fiber_stack # <<>>
    /\ fibers[Top.fiber].at = "polling"
    /\ IF fibers[Top.fiber].suspend = Top.fiber
       THEN /\ fibers' = [fibers EXCEPT ![Top.fiber].at = "suspended",
                                        ![Top.fiber].cx = "null"]
            /\ fiber_stack' = SubSeq(fiber_stack, 1, Len(fiber_stack) - 1)
            /\ current_poll_cx' = Reset(fibers[Top.fiber].cx, Top.prev)
       ELSE /\ fibers' = [fibers EXCEPT ![Top.fiber].at = "undefined"]
            /\ current_poll_cx' = Reset(current_poll_cx, fibers[Top.fiber].cx)
            /\ UNCHANGED fiber_stack
    /\ UNCHANGED <<current_suspend, fiberRest>>

\* The function returns: the closure of the fiber puts back the Suspend it
\* found, the fiber is done, and the poll that resumed it returns Ready and
\* puts back the Context it found.
closure_return ==
    /\ fiber_stack # <<>>
    /\ fibers[Top.fiber].at = "running"
    /\ fibers' = [fibers EXCEPT ![Top.fiber].at = "done"]
    /\ fiber_stack' = SubSeq(fiber_stack, 1, Len(fiber_stack) - 1)
    /\ current_suspend' = Reset(current_suspend, fibers[Top.fiber].prev)
    /\ current_poll_cx' = Reset(current_poll_cx, Top.prev)
    /\ UNCHANGED fiberRest

\* Drop for FiberFuture, by the future's owner: a fiber that never ran
\* returns at keep_going?; a suspended one gets the trap out of block_on,
\* whose Reset puts its Suspend back, drops the future it was polling (and
\* the fibers that future started) and unwinds through the closure, whose
\* Reset puts back the Suspend the closure found.
FiberFuture_drop ==
    /\ MayPoll
    /\ \E f \in DOMAIN fibers :
          /\ fibers[f].owner = Here
          /\ fibers[f].at \in {"new", "suspended"}
          /\ fibers' = [g \in DOMAIN fibers |->
                           IF g = f \/ g \in Descendants(f)
                           THEN [fibers[g] EXCEPT !.at = "done"]
                           ELSE fibers[g]]
          /\ current_suspend' =
                IF fibers[f].at = "new" THEN current_suspend
                ELSE Reset(Reset(current_suspend, fibers[f].suspend), fibers[f].prev)
    /\ UNCHANGED <<current_poll_cx, fiber_stack, fiberRest>>

\* An async store on which no on_fiber call was made yet.
InitFiber ==
    /\ is_async = TRUE
    /\ interruptable = FALSE
    /\ consume_fuel = FALSE
    /\ StoreNew
    /\ StoreNewModules
    /\ NoCode
    /\ compiled = {}
    /\ ConfigLimitsLargest
    /\ add_meter = MeterOff
    /\ yield_meter = MeterOff

NextFiber ==
    \/ Fiber_new
    \/ FiberFuture_poll
    \/ block_on
    \/ block_on_ready
    \/ block_on_pending
    \/ closure_return
    \/ FiberFuture_drop

SpecFiber == InitFiber /\ [][NextFiber]_vars

(***************************************************************************)
(* The Linker of the embedding API.  Its implementation lives in another   *)
(* crate; the model follows crates/api/tests/linker.rs and the             *)
(* specification: definitions are kept by module name, field name and the  *)
(* kind and type of the item, and instantiate looks every import up.       *)
(***************************************************************************)

\* Bounds: the definitions a Linker holds, the imports of a module, and
\* the instances a Linker creates.
MaxDefinitions == 2
MaxImports == 1
MaxLinked == 1

\* The items and import types of the tests: functions () -> () and
\* (i32) -> (), globals of type i32 and i64, constant and variable,
\* memories and funcref tables with a minimum of one or two.
LinkItems ==
    [kind : {"func"}, ty : {"()", "(i32)"}]
        \cup [kind : {"global"}, content : {"i32", "i64"}, mutability : {"const", "var"}]
        \cup [kind : {"memory", "table"}, min : {1, 2}]

\* The names definitions and imports use.
LinkNames == [module : {""}, name : {"", "a"}]

\* What, besides the names, tells two definitions apart: the signature of
\* a function, the content type and mutability of a global, and nothing
\* more than the kind for a memory or a table.
ImportKey(item) ==
    IF item.kind = "func" THEN <<"func", item.ty>>
    ELSE IF item.kind = "global" THEN <<"global", item.content, item.mutability>>
    ELSE <<item.kind>>

\* The definitions the Linker has for a name and an import type.
Definitions(defs, at, ty) ==
    {d \in defs : d.at = at /\ ImportKey(d.item) = ImportKey(ty)}

\* The item satisfies the import type: the limits of a memory or a table
\* declare at least the minimum the import asks for.
Matches(item, ty) ==
    IF item.kind \in {"memory", "table"} THEN item.min >= ty.min ELSE item = ty

\* A faulty define that replaces the definition already there.
define_shadows(at, item) ==
    /\ linker' = (linker \ Definitions(linker, at, item)) \cup {[at |-> at, item |-> item]}
    /\ link_result' = [call |-> "define", result |-> "Ok"]
    /\ UNCHANGED <<linked, inst_call, storeVars, meterVars, traceVars, lifeVars,
                   jitVars, trampVars, handleVars, fiberVars>>

\* Linker::define (and Linker::func, which defines a function): an error,
\* and the Linker as it was, if the name already has a definition with the
\* same key.
define(at, item) ==
    /\ IF Definitions(linker, at, item) # {}
       THEN /\ link_result' = [call |-> "define", result |-> "Err"]
            /\ UNCHANGED linker
       ELSE /\ linker' = linker \cup {[at |-> at, item |-> item]}
            /\ link_result' = [call |-> "define", result |-> "Ok"]
    /\ UNCHANGED <<linked, inst_call, storeVars, meterVars, traceVars, lifeVars,
                   jitVars, trampVars, handleVars, fiberVars>>

\* The import has no definition that satisfies it.
Unresolved(defs, import) ==
    \A d \in Definitions(defs, import.at, import.ty) : ~Matches(d.item, import.ty)

\* A faulty lookup that leaves an import it cannot find unset.
InstantiateLenient(defs, imports) == "Ok"

\* The lookup of Linker::instantiate: every import of the module is looked
\* up, and one that is not found is an error.
InstantiateResult(defs, imports) ==
    IF \E import \in imports : Unresolved(defs, import) THEN "Err" ELSE "Ok"

\* Linker::instantiate for a module with these imports: an instance is
\* created only if all of them are found.
linker_instantiate(imports) ==
    /\ link_result' = [call |-> "instantiate",
                       result |-> InstantiateResult(linker, imports)]
    /\ linked' = IF InstantiateResult(linker, imports) = "Ok" THEN linked + 1
                 ELSE linked
    /\ UNCHANGED <<linker, inst_call, storeVars, meterVars, traceVars, lifeVars,
                   jitVars, trampVars, handleVars, fiberVars>>

\* The import types of the tests, and a memory that asks for two pages.
ImportTypes ==
    { [kind |-> "func", ty |-> "()"],
      [kind |-> "global", content |-> "i32", mutability |-> "const"],
      [kind |-> "memory", min |-> 1],
      [kind |-> "memory", min |-> 2],
      [kind |-> "table", min |-> 1] }

\* The sets of at most n elements of S.
RECURSIVE SetsUpTo(_, _)
SetsUpTo(S, n) ==
    IF n = 0 THEN {{}}
    ELSE LET smaller == SetsUpTo(S, n - 1)
         IN  smaller \cup {s \cup {x} : s \in smaller, x \in S}

\* The imports of a module: up to MaxImports of them.
Imports == [at : LinkNames, ty : ImportTypes]
ImportSets == SetsUpTo(Imports, MaxImports)

Linker_define ==
    /\ \E at \in LinkNames, item \in LinkItems :
          /\ IF Definitions(linker, at, item) = {}
             THEN Cardinality(linker) < MaxDefinitions ELSE TRUE
          /\ define(at, item)

Linker_instantiate ==
    /\ linked < MaxLinked
    /\ \E imports \in ImportSets : linker_instantiate(imports)

\* Linker::new on a new store.
InitLink ==
    /\ is_async = FALSE
    /\ interruptable = FALSE
    /\ consume_fuel = FALSE
    /\ StoreNew
    /\ StoreNewModules
    /\ NoCode
    /\ compiled = {}
    /\ ConfigLimitsLargest
    /\ add_meter = MeterOff
    /\ yield_meter = MeterOff

NextLink == Linker_define \/ Linker_instantiate

SpecLink == InitLink /\ [][NextLink]_vars

(***************************************************************************)
(* CompiledModule::instantiate, step by step: the signatures of the module *)
(* are registered in the store's SignatureRegistry one after the other,    *)
(* then the imports are resolved, then InstanceHandle::new is called.      *)
(* resolve_imports and InstanceHandle::new live in other crates and are    *)
(* modelled from the specification: an import resolves when the resolver   *)
(* has an export of its type under its name.                               *)
(***************************************************************************)

\* Bound: the instances CompiledModule::instantiate creates.
MaxCreated == 2

\* The function types and the import names of the modules instantiated.
InstTypes == {"()", "(i32)"}
InstNames == {"f", "g"}

\* The shared index SignatureRegistry::register returns for a type.
SharedIndex(sigs, wasm) == CHOOSE i \in SignatureLookup(sigs, wasm) : TRUE

\* resolve_imports: the imports the resolver has no export for.
UnresolvedImports(module, resolver) == module.imports \ resolver

\* CompiledModule::instantiate is called with a resolver.
instantiate_begin ==
    /\ inst_call.at \in {"none", "returned"}
    /\ \E sigs \in SeqsUpTo(InstTypes, MaxSignatures), imports \in SUBSET InstNames,
          resolver \in SUBSET InstNames :
          inst_call' = [at |-> "registering",
                        module |-> [signatures |-> sigs, imports |-> imports],
                        resolver |-> resolver,
                        signatures |-> <<>>,
                        trampolines |-> {},
                        created |-> IF inst_call.at = "none" THEN 0
                                    ELSE inst_call.created,
                        result |-> "none"]
    /\ UNCHANGED <<linker, link_result, linked, storeVars, meterVars, traceVars,
                   lifeVars, jitVars, trampVars, handleVars, fiberVars>>

\* The next signature of the module is registered, and its shared index
\* put into the map of the call.
instantiate_register ==
    /\ inst_call.at = "registering"
    /\ Len(inst_call.signatures) < Len(inst_call.module.signatures)
    /\ LET wasm == inst_call.module.signatures[Len(inst_call.signatures) + 1]
           sigs == SignatureRegister(signatures, wasm, [for |-> wasm])
       IN  /\ signatures' = sigs
           /\ inst_call' = [inst_call EXCEPT
                               !.signatures = Append(@, SharedIndex(sigs, wasm))]
    /\ UNCHANGED <<linker, link_result, linked, storeVars, meterVars, lifeVars,
                   jitVars, trampVars, handleVars, fiberVars>>
    /\ UNCHANGED <<frame_info, modules, instances, native_stack, tpc, trap, panic,
                   stack_maps, compiled, register_calls, countVars>>

\* The end of the call once the imports are looked up: the error of
\* resolve_imports, or the state in which InstanceHandle::new is called.
Resolved(inst) ==
    IF UnresolvedImports(inst.module, inst.resolver) # {}
    THEN [inst EXCEPT !.at = "returned", !.result = "LinkError"]
    ELSE [inst EXCEPT !.at = "resolved"]

\* A faulty instantiate that resolves the imports before the signatures
\* are registered.
instantiate_resolve_first ==
    /\ inst_call.at = "registering"
    /\ inst_call' = Resolved(inst_call)
    /\ UNCHANGED <<linker, link_result, linked, storeVars, meterVars, traceVars,
                   lifeVars, jitVars, trampVars, handleVars, fiberVars>>

\* With every signature registered the trampolines are keyed by shared
\* index and resolve_imports is called; its error ends the call.
instantiate_resolve ==
    /\ inst_call.at = "registering"
    /\ Len(inst_call.signatures) = Len(inst_call.module.signatures)
    /\ inst_call' = [Resolved(inst_call) EXCEPT
                        !.trampolines = {inst_call.signatures[i] :
                                            i \in DOMAIN inst_call.signatures}]
    /\ UNCHANGED <<linker, link_result, linked, storeVars, meterVars, traceVars,
                   lifeVars, jitVars, trampVars, handleVars, fiberVars>>

\* InstanceHandle::new: the instance is created and returned.
instantiate_new ==
    /\ inst_call.at = "resolved"
    /\ inst_call.created < MaxCreated
    /\ inst_call' = [inst_call EXCEPT !.at = "returned", !.result = "Ok",
                                      !.created = @ + 1]
    /\ UNCHANGED <<linker, link_result, linked, storeVars, meterVars, traceVars,
                   lifeVars, jitVars, trampVars, handleVars, fiberVars>>

InitInst ==
    /\ is_async = FALSE
    /\ interruptable = FALSE
    /\ consume_fuel = FALSE
    /\ StoreNew
    /\ StoreNewModules
    /\ NoCode
    /\ compiled = {}
    /\ ConfigLimitsLargest
    /\ add_meter = MeterOff
    /\ yield_meter = MeterOff

NextInst ==
    \/ instantiate_begin
    \/ instantiate_register
    \/ instantiate_resolve
    \/ instantiate_new

SpecInst == InitInst /\ [][NextInst]_vars

(***************************************************************************)
(* Properties.                                                             *)
(***************************************************************************)

\* Wasm is about to execute an interrupt check.
AtCheck == pc = "wasm" /\ wpc \in {"entry", "loop"}

\* The step ends the call with an interrupt trap.
InterruptTrapStep == pc = "wasm" /\ pc' # "wasm" /\ result' = InterruptMessage

\* C1: once interrupt() has been called, the next interrupt check that wasm
\* executes ends the call with an interrupt trap, and that trap consumes the
\* request: a check passes (wasm goes on) exactly when no interrupt() call
\* is outstanding, and an interrupt trap is raised only by a check with a
\* call outstanding.  A step in which Store::interrupt_handle returns is
\* not a step of the wasm code.
C1_InterruptDelivered ==
    [][ /\ (AtCheck /\ irq_requested /\ UNCHANGED handle_result)
            => (InterruptTrapStep /\ ~interrupted' /\ ~irq_requested')
        /\ (AtCheck /\ ~irq_requested /\ ~irq_requested' /\ UNCHANGED handle_result)
            => (pc' = "wasm" /\ wpc' = "body" /\ result' = result)
        /\ InterruptTrapStep => (AtCheck /\ irq_requested /\ interrupted) ]_vars

\* An interrupt trap has been delivered and no interrupt is outstanding.
C1_Witness ==
    /\ result = InterruptMessage
    /\ pc \in {"idle", "done"}
    /\ ~interrupted
    /\ ~irq_requested

\* The step invokes the out-of-gas handler (which traps or yields).
OutOfGasFires ==
    /\ pc = "wasm"
    /\ \/ pc' # "wasm" /\ result' = OutOfGasMessage
       \/ pc' = "suspended" /\ blocking'.kind = "Yield"

\* The step performs one unit of wasm work.
WorkStep == interrupts_fuel_consumed' = interrupts_fuel_consumed + 1

\* C2 as stated: after add_fuel(n) the out-of-gas handler fires exactly
\* when the work performed since the call has reached n units, and no unit
\* of work is performed beyond n.
C2_ExactlyN ==
    [][ add_meter.called =>
          /\ OutOfGasFires => add_meter.work = add_meter.arg
          /\ WorkStep => add_meter.work < add_meter.arg ]_vars

\* The work the last add_fuel(n) allows: the fuel that was left plus n, with
\* n and the store's lifetime total both saturating at i64::MAX.
Granted ==
    Min(add_meter.left + Min(add_meter.arg, I64Max),
        I64Max - (TotalConsumed - add_meter.work))

\* C2, amended: after add_fuel(n) on a store with r units left, the
\* out-of-gas handler fires exactly when the work performed since has
\* reached min(r + min(n, i64::MAX), i64::MAX - consumed before): not
\* before, and no unit of work is performed beyond it.
C2_ExactlyGranted ==
    /\ [](add_meter.called => add_meter.work <= Granted)
    /\ [][ add_meter.called =>
              /\ OutOfGasFires => add_meter.work = Granted
              /\ WorkStep => add_meter.work < Granted
              /\ (pc = "wasm" /\ wpc = "body" /\ add_meter.work = Granted)
                    => ~WorkStep ]_vars

\* Out of gas after add_fuel(n) on a store that still had fuel: more than n
\* units of work were performed.
C2_Witness ==
    /\ add_meter.on
    /\ add_meter.called
    /\ result = OutOfGasMessage
    /\ add_meter.arg > 0
    /\ add_meter.left > 0
    /\ add_meter.work = add_meter.left + add_meter.arg

\* The step is a call of add_fuel: the observer recorded it, or fuel_adj
\* (which only add_fuel writes) changed.
AddFuelStep ==
    \/ add_meter' # add_meter /\ add_meter'.called /\ add_meter'.work = 0
    \/ fuel_adj' # fuel_adj

\* C3: add_fuel(f), called by the host or by the out-of-gas yield, never
\* changes the value fuel_consumed() reports, for every f, in both branches.
C3_AddFuelKeepsConsumed ==
    [][ AddFuelStep => /\ fuel_consumed' = fuel_consumed
                       /\ fuel_consumed \in 0 .. I64Max ]_vars

\* add_fuel(f) with f > i64::MAX took the overflow branch on a store that
\* had consumed fuel, and the store now holds i64::MAX fuel in total.
C3_Witness ==
    /\ add_meter.on
    /\ add_meter.called
    /\ add_meter.overflowed
    /\ add_meter.arg > I64Max
    /\ add_meter.work = 0
    /\ fuel_consumed \in 1 .. I64Max
    /\ fuel_adj = I64Max

\* The step ends the call with the out-of-gas trap.
OutOfGasTrapStep == pc = "wasm" /\ pc' # "wasm" /\ result' = OutOfGasMessage

\* The fuel consumed since out_of_fuel_async_yield was called.
ConsumedSinceConfigured == TotalConsumed - yield_meter.before

Allowed ==
    Min(yield_meter.left
          + yield_meter.injection_count * Min(yield_meter.fuel_to_inject, I64Max),
        I64Max - yield_meter.before)

LifeState ==
    IF pc = "wasm" THEN "Running"
    ELSE IF pc = "suspended" THEN "Suspended"
    ELSE IF result \in {OutOfGasMessage, InterruptMessage, DroppedMessage}
         THEN "Trapped"
         ELSE "Ready"

\* The state a step starts from: with no call in progress the next call
\* starts Ready, however the last one ended.
LifeFrom == IF pc = "idle" THEN "Ready" ELSE LifeState

LifeStep == <<LifeFrom, LifeState'>>

ClaimedTransitions ==
    { <<"Ready", "Running">>, <<"Running", "Ready">>, <<"Running", "Trapped">>,
      <<"Running", "Suspended">>, <<"Suspended", "Running">> }

\* C5 as stated: the lifecycle takes only the transitions Ready -> Running,
\* Running -> Ready, Running -> Trapped, Running -> Suspended and
\* Suspended -> Running, and Suspended is entered only on an async store
\* whose out-of-gas behaviour is InjectFuel with injection_count > 0.
C5_OnlyClaimedTransitions ==
    [][ /\ LifeState' \in {LifeState, LifeFrom} \/ LifeStep \in ClaimedTransitions
        /\ (LifeState # "Suspended" /\ LifeState' = "Suspended")
              => /\ is_async
                 /\ out_of_gas_behavior.kind = "InjectFuel"
                 /\ out_of_gas_behavior.injection_count > 0 ]_vars

\* C5, amended: besides the five transitions there is Suspended -> Trapped
\* when the future of the call is dropped; Running -> Trapped happens on
\* out-of-gas (behaviour Trap, or no injection left) or on an interrupt;
\* Suspended is entered only on an async store, either by an out-of-gas
\* yield (fuel exhausted, InjectFuel with injection_count > 0) or because
\* a host future is pending.
C5_LifecycleWithCancel ==
    [][ /\ \/ LifeState' \in {LifeState, LifeFrom}
           \/ LifeStep \in ClaimedTransitions \cup {<<"Suspended", "Trapped">>}
        /\ LifeStep = <<"Suspended", "Trapped">>
              => (result' = DroppedMessage /\ ~future_alive')
        /\ LifeStep = <<"Running", "Trapped">>
              => \/ result' = InterruptMessage
                 \/ /\ result' = OutOfGasMessage
                    /\ consume_fuel
                    /\ Remaining = 0
                    /\ \/ out_of_gas_behavior.kind = "Trap"
                       \/ out_of_gas_behavior.injection_count = 0
        /\ (LifeState # "Suspended" /\ LifeState' = "Suspended")
              => /\ is_async
                 /\ LifeState = "Running"
                 /\ \/ /\ blocking'.kind = "Yield"
                       /\ consume_fuel
                       /\ Remaining = 0
                       /\ out_of_gas_behavior.kind = "InjectFuel"
                       /\ out_of_gas_behavior.injection_count > 0
                    \/ /\ blocking'.kind = "host"
                       /\ ~blocking'.ready ]_vars

\* A call suspended in an out-of-gas yield was cancelled: it went from
\* Suspended to Trapped.
C5_Witness ==
    /\ LifeState = "Trapped"
    /\ result = DroppedMessage
    /\ out_of_gas_behavior.kind = "InjectFuel"
    /\ consume_fuel
    /\ Remaining = 0
    /\ fuel_adj > 0

\* The step drops the FiberFuture.
DropStep == future_alive /\ ~future_alive'

\* C6: dropping the future of a fiber that has started and not finished
\* resumes the fiber with Err("future dropped"), the pending block_on
\* returns that trap, and the fiber has run to completion when drop
\* returns: it is not suspended, no wasm has run and no fuel was injected.
\* Dropping the future of a finished fiber changes nothing of the call, and
\* a fiber never outlives its future.
C6_DropCancelsFiber ==
    /\ [](pc \in {"created", "suspended", "done"} => future_alive)
    /\ [][ DropStep =>
              /\ pc' = "idle"
              /\ (pc = "suspended") =>
                    /\ resume_val' = "Err"
                    /\ result' = DroppedMessage
                    /\ wpc' = "none"
                    /\ blocking' = NoFuture
                    /\ UNCHANGED <<interrupts_fuel_consumed, fuel_adj, out_of_gas_behavior,
                                   current_suspend, current_poll_cx>>
              /\ (pc = "done") =>
                    UNCHANGED <<resume_val, result, wpc, blocking, interrupts_fuel_consumed,
                                fuel_adj, out_of_gas_behavior, current_suspend,
                                current_poll_cx>> ]_vars

\* The future of a call suspended on a pending host future was dropped: the
\* fiber was resumed with Err and the call ended with "future dropped".
C6_Witness ==
    /\ ~future_alive
    /\ pc = "idle"
    /\ resume_val = "Err"
    /\ result = DroppedMessage
    /\ current_suspend = "null"

\* C7: a call on a synchronous store is never suspended.  On an async
\* store poll has returned Pending exactly when the fiber is suspended in
\* block_on and Ready exactly when the fiber is done; the fiber suspends
\* only when a host future polled by block_on was Pending or when the
\* out-of-gas handler yields under InjectFuel, and a suspended fiber goes on
\* only when its future is no longer Pending.
C7_PendingOnlyInBlockOn ==
    /\ [](~is_async => (pc \in {"idle", "wasm"} /\ poll_result = "none"))
    /\ []((poll_result = "Pending") <=> (pc = "suspended"))
    /\ []((poll_result = "Ready") <=> (pc = "done"))
    /\ [][ /\ (pc # "suspended" /\ pc' = "suspended") =>
                 /\ is_async
                 /\ pc = "wasm"
                 /\ \/ blocking'.kind = "host" /\ ~blocking'.ready
                    \/ /\ blocking'.kind = "Yield"
                       /\ consume_fuel
                       /\ Remaining = 0
                       /\ out_of_gas_behavior.kind = "InjectFuel"
           /\ (pc = "suspended" /\ pc' = "wasm") =>
                 (blocking.kind = "host" => blocking.ready) ]_vars

\* A call on an async store whose out-of-gas behaviour is Trap is suspended
\* on a pending host future, and poll returned Pending.
C7_Witness ==
    /\ is_async
    /\ pc = "suspended"
    /\ poll_result = "Pending"
    /\ blocking.kind = "host"
    /\ ~blocking.ready
    /\ out_of_gas_behavior.kind = "Trap"

\* The wasm frames of a native stack, innermost first, as the frames
\* themselves record their module and function.
RECURSIVE WasmFrames(_)
WasmFrames(stack) ==
    IF stack = <<>> THEN <<>>
    ELSE LET frame == stack[Len(stack)]
             rest  == WasmFrames(SubSeq(stack, 1, Len(stack) - 1))
         IN  IF frame.kind = "wasm" THEN <<frame>> \o rest ELSE rest

\* C8: the backtrace of a trap lists exactly the wasm frames of the native
\* stack at the trap, innermost first and the trapping frame included: its
\* length is their number, its i-th entry is the i-th innermost wasm frame,
\* and no entry is a host function.
C8_BacktraceIsWasmFrames ==
    tpc = "trapped" =>
        LET w == WasmFrames(native_stack)
        IN  /\ Len(trap.trace) = Len(w)
            /\ Len(trap.trace) =
                  Cardinality({i \in DOMAIN native_stack : native_stack[i].kind = "wasm"})
            /\ \A i \in DOMAIN trap.trace :
                  /\ trap.trace[i].func_index = w[i].func
                  /\ trap.trace[i].module_name = ModuleOf(w[i].module).name
                  /\ FuncOf(w[i].module, trap.trace[i].func_index).kind = "defined"

\* test_trap_trace_cb: the host import throw returned the trap "cb throw"
\* below two wasm frames; the backtrace lists functions 2 and 1 only.
C8_Witness ==
    /\ tpc = "trapped"
    /\ trap.message = "cb throw"
    /\ native_stack[Len(native_stack)].kind = "host"
    /\ Len(native_stack) = 4
    /\ Len(trap.trace) = 2
    /\ trap.trace[1].func_index = 2
    /\ trap.trace[2].func_index = 1

\* How a frame of a backtrace is displayed: module!name, the name falling
\* back to <wasm function N>.
DisplayFrame(frame) ==
    frame.module_name \o "!" \o
        (IF frame.func_name = None
         THEN "<wasm function " \o ToString(frame.func_index) \o ">"
         ELSE frame.func_name)

DisplayTrace(trace) == [i \in DOMAIN trace |-> DisplayFrame(trace[i])]

\* The backtrace trap_display_multi_module expects.
trap_display_multi_module_backtrace ==
    <<"a!die", "a!<wasm function 1>", "a!foo", "a!<wasm function 3>",
      "b!middle", "b!<wasm function 2>">>

\* The native stack holds wasm frames of more than one module.
CrossesModules ==
    \E i, j \in DOMAIN native_stack :
        /\ native_stack[i].kind = "wasm"
        /\ native_stack[j].kind = "wasm"
        /\ native_stack[i].module # native_stack[j].module

\* C9: when a trap crosses several modules of one store, the one backtrace
\* holds the frames of all of them in call order, innermost first, each
\* attributed to the module and function index that own its PC and named
\* by the function's name or <wasm function N>; for module b calling the
\* export of module a it is the backtrace trap_display_multi_module expects.
C9_MultiModuleAttribution ==
    (tpc = "trapped" /\ CrossesModules) =>
        LET w == WasmFrames(native_stack)
        IN  /\ DOMAIN trap.trace = DOMAIN w
            /\ \A i \in DOMAIN trap.trace :
                  /\ trap.trace[i].module_name = ModuleOf(w[i].module).name
                  /\ trap.trace[i].func_index = w[i].func
                  /\ trap.trace[i].func_name = FuncOf(w[i].module, w[i].func).name
            /\ DisplayTrace(trap.trace) = trap_display_multi_module_backtrace

\* bar2 of module b trapped in die of module a: six frames, four of a and
\* then two of b.
C9_Witness ==
    /\ tpc = "trapped"
    /\ CrossesModules
    /\ trap.message = "unreachable"
    /\ Len(trap.trace) = 6
    /\ trap.trace[1].module_name = "a"
    /\ trap.trace[6].module_name = "b"

\* run of test_trap_return has trapped.
TrapReturnTrapped ==
    /\ tpc = "trapped"
    /\ Len(native_stack) >= 2
    /\ native_stack[2].module = "trap_return"

\* C10 as stated: run calls the host import hello, which returns the trap
\* "test 123"; run.call returns a trap with that message whose backtrace
\* is [run, hello] (run is function 1 and hello function 0 of the module).
C10_BacktraceRunHello ==
    TrapReturnTrapped =>
        /\ trap.message = "test 123"
        /\ [i \in DOMAIN trap.trace |-> trap.trace[i].func_index] = <<1, 0>>

\* C10, amended: run.call returns a trap whose message is "test 123" and
\* whose backtrace is the one wasm frame of run (function 1, unnamed, of
\* an unnamed module); the host function hello is not listed.
C10_BacktraceRunOnly ==
    TrapReturnTrapped =>
        /\ trap.message = "test 123"
        /\ trap.trace = <<[module_name |-> None, func_index |-> 1, func_name |-> None]>>

\* run of test_trap_return has trapped in hello, whose host frame is on the
\* native stack.
C10_Witness ==
    /\ TrapReturnTrapped
    /\ Len(native_stack) = 3
    /\ native_stack[3].kind = "host"
    /\ trap.message = "test 123"
    /\ Len(trap.trace) = 1

\* The start function of module id is the host import that fails with message.
StartFails(id, op) ==
    \E index \in ModuleOf(id).start :
        FuncOf(id, index).kind = "host" /\ FuncOf(id, index).op = op

\* C11: when the start function of a module traps (the host import of
\* trap_start_function_import returning Trap::new("user trap")),
\* Instance::new fails with that very trap, message unchanged, which
\* reaches the host as it was raised; no instance is returned and none is
\* left among the instances of the store.
C11_StartTrapFailsInstantiation ==
    [][/\ \A id \in ModuleIds :
             (instantiate(id) /\ StartFails(id, "trap")) =>
                 /\ tpc' = "trapped"
                 /\ \E index \in ModuleOf(id).start :
                        trap'.message = FuncOf(id, index).message
                 /\ id = "start_import" => trap'.message = "user trap"
                 /\ panic' = NoPanic
                 /\ instances' = instances
                 /\ id \notin instances'
       /\ (tpc = "trapped" /\ tpc' = "host") => (trap' = trap /\ instances' = instances)
      ]_vars

\* Instance::new of trap_start_function_import has failed with "user trap".
C11_Witness ==
    /\ tpc = "trapped"
    /\ trap.message = "user trap"
    /\ native_stack = <<HostFrame, HostFrame>>
    /\ "start_import" \in modules
    /\ "start_import" \notin instances

\* The innermost wasm function is about to call a host import that panics.
CallsPanickingImport ==
    /\ tpc = "running"
    /\ LET top == native_stack[Len(native_stack)]
           f   == FuncOf(top.module, top.func)
       IN  /\ f.op = "call"
           /\ FuncOf(top.module, f.target).kind = "host"
           /\ FuncOf(top.module, f.target).op = "panic"

\* The registrations and the instances of the store.
StoreRegistrations == <<frame_info, modules, instances, signatures, stack_maps>>

\* C12: a panic of a host import called from wasm leaves Func::call, and
\* one of the start function leaves Instance::new, as a panic with the
\* payload it was raised with ("this is a panic") and not as a trap; the
\* unwinding changes nothing that is registered in the store, and once it
\* has reached the host the store takes further instantiations and calls
\* of its instances.
C12_PanicPropagates ==
    /\ [][/\ (CallsPanickingImport /\ native_stack' # native_stack) =>
                 (tpc' = "panicking" /\ panic' = "this is a panic" /\ trap' = NoTrap)
          /\ \A id \in ModuleIds :
                 (instantiate(id) /\ StartFails(id, "panic")) =>
                     /\ tpc' = "panicking"
                     /\ panic' = "this is a panic"
                     /\ trap' = NoTrap
                     /\ id \notin instances'
          /\ (tpc = "panicking") =>
                 /\ tpc' = "host"
                 /\ native_stack' = <<>>
                 /\ panic' = panic
                 /\ trap' = NoTrap
                 /\ StoreRegistrations' = StoreRegistrations
         ]_vars
    /\ []((tpc = "host" /\ panic # NoPanic) =>
             /\ native_stack = <<>>
             /\ instances \subseteq modules
             /\ \A id \in compiled : ENABLED instantiate(id)
             /\ \A id \in instances : ENABLED func_call(id, <<>>))

\* The panic of the import of rust_panic_import has unwound out of
\* Func::call and reached the host.
C12_Witness ==
    /\ tpc = "host"
    /\ panic = "this is a panic"
    /\ "panic_import" \in instances
    /\ native_stack = <<>>

\* The call in progress is in run of test_trap_stack_overflow, which
\* calls itself.
InRecursion ==
    /\ Len(native_stack) >= 2
    /\ native_stack[Len(native_stack)].kind = "wasm"
    /\ native_stack[Len(native_stack)].module = "stack_overflow"

NoWasmInvoked ==
    /\ native_stack = <<>>
    /\ native_stack' = <<>>
    /\ tpc' = "host"
    /\ panic' = NoPanic

\* C14: Func::call of a function of K parameters with M arguments returns
\* the trap "expected K arguments, got M" whenever M differs from K,
\* whatever the types of the arguments, and the trap "argument type
\* mismatch" when M equals K and an argument's type differs from its
\* parameter's; in both cases no wasm code runs.  Arguments that fit enter
\* the function.  For the function (param i32) of mismatched_arguments:
\* no argument gives "expected 1 arguments, got 0", an f32 the type
\* mismatch, two arguments "expected 1 arguments, got 2".
C14_ArgumentsChecked ==
    [][\A id \in ModuleIds, args \in ArgLists :
          func_call(id, args) =>
              \A index \in ModuleOf(id).exports :
                  LET params == TypeOf(id, index).params
                      K == Len(params)
                      M == Len(args)
                  IN  /\ (M # K) =>
                             /\ trap' = [message |-> "expected " \o ToString(K) \o
                                                     " arguments, got " \o ToString(M),
                                         trace |-> <<>>]
                             /\ NoWasmInvoked
                      /\ (M = K /\ args # params) =>
                             /\ trap' = [message |-> "argument type mismatch", trace |-> <<>>]
                             /\ NoWasmInvoked
                      /\ (args = params) => native_stack' # <<>>
                      /\ (id = "mismatched" /\ args = <<>>) =>
                             trap'.message = "expected 1 arguments, got 0"
                      /\ (id = "mismatched" /\ args = <<"f32">>) =>
                             trap'.message = "argument type mismatch"
                      /\ (id = "mismatched" /\ M = 2) =>
                             trap'.message = "expected 1 arguments, got 2"
      ]_vars

\* The call of the function (param i32) with an f32 has returned.
C14_Witness ==
    /\ "mismatched" \in instances
    /\ tpc = "host"
    /\ native_stack = <<>>
    /\ trap = [message |-> "argument type mismatch", trace |-> <<>>]

\* What register_module leaves in the store for module id: one entry of
\* frame information if the module has functions, its code kept alive,
\* each of its types interned once, and the ranges of its functions in
\* the stack-map registry.
RegisteredOnce(id) ==
    /\ CopiesIn(id, frame_info) = (IF finished_functions(id) = 0 THEN 0 ELSE 1)
    /\ id \in modules
    /\ \A n \in DOMAIN ModuleOf(id).types :
           Cardinality(SignatureLookup(signatures, ModuleOf(id).types[n])) = 1
    /\ \A d \in 0 .. (finished_functions(id) - 1) :
           <<FuncStart(id, d), FuncStart(id, d) + FuncLen>> \in stack_maps

\* C15: register_module is idempotent.  A call with a module the store
\* has already registered changes neither the frame information, nor the
\* modules kept alive, nor the signature registry, nor the stack-map
\* registry; whatever the number of calls, the store holds for the module
\* what one call leaves, the frame information no second entry, and
\* applying the registrations to any reachable store twice gives what
\* applying them once gives.
C15_RegisterModuleIdempotent ==
    /\ [](\A id \in modules : RegisteredOnce(id))
    /\ [](\A id \in ModuleIds :
             LET info == register_jit_code(frame_info, id)
                 sigs == register_signatures(signatures, id)
                 maps == register_stack_maps(stack_maps, id)
             IN  /\ register_jit_code(info, id) = info
                 /\ register_signatures(sigs, id) = sigs
                 /\ register_stack_maps(maps, id) = maps)
    /\ [][\A id \in modules :
              instantiate(id) =>
                  /\ frame_info' = frame_info
                  /\ modules' = modules
                  /\ signatures' = signatures
                  /\ stack_maps' = stack_maps]_vars

\* A module with functions has been given to register_module a second time.
C15_Witness ==
    \E id \in register_calls :
        /\ finished_functions(id) > 0
        /\ CopiesIn(id, frame_info) = 1

\* PC p lies in a published range of the CodeMemory of module id.
Published(id, p) == \E r \in jit_code_ranges(id) : p >= r[1] /\ p < r[2]

\* PC p lies in a compiled function of module id.
InFunctions(id, p) == p >= CodeStart(id) /\ p < FuncsEnd(id)

C19_SignaturesRegistered ==
    /\ \A id \in modules :
           \A index \in 0 .. (Len(ModuleOf(id).types) - 1) :
               LET found == lookup_shared_signature(signatures, id, index)
               IN  /\ found # [panic |-> "signature not previously registered"]
                   /\ found.shared \in DOMAIN signatures
                   /\ signatures[found.shared].wasm = ModuleOf(id).types[index + 1]
                   /\ signatures[found.shared].trampoline =
                          [for |-> ModuleOf(id).types[index + 1]]
    /\ instances \subseteq modules
    /\ \A i \in DOMAIN native_stack :
           native_stack[i].kind = "wasm" => native_stack[i].module \in modules

\* The function (param i32) is instantiated in a store that has
\* registered a module of another type: two signatures are interned.
C19_Witness ==
    /\ "mismatched" \in instances
    /\ Len(signatures) = 2
    /\ lookup_shared_signature(signatures, "mismatched", 0) \in {[shared |-> 1], [shared |-> 2]}

\* The call of bump_resource_counts returned an error.
BumpFailed == bump_result' # "Ok"

\* C20: after any sequence of bump_resource_counts calls each counter is
\* at most its limit.  A call counts one instance and the memories and
\* tables the module defines, not those it imports; if a new total (a
\* usize: a sum beyond the largest usize counts as the largest) exceeds
\* its limit the call returns the error "resource limit exceeded" that
\* names the counter and the total, and otherwise it returns Ok with the
\* three counters raised by these amounts.  A failed call leaves the
\* counter over its limit, and those after it, as they were.
C20_CountsWithinLimits ==
    /\ [](/\ instance_count <= max_instances
          /\ memory_count <= max_memories
          /\ table_count <= max_tables)
    /\ [][\A module \in ModuleShapes :
              bump_resource_counts(module) =>
                  LET memories == module.memory_plans - module.num_imported_memories
                      tables   == module.table_plans - module.num_imported_tables
                      i == Min(instance_count + 1, UsizeMax)
                      m == Min(memory_count + memories, UsizeMax)
                      t == Min(table_count + tables, UsizeMax)
                  IN  /\ (i > max_instances) =>
                             /\ bump_result' = "resource limit exceeded: instance count too high at "
                                                   \o ToString(i)
                             /\ UNCHANGED <<instance_count, memory_count, table_count>>
                      /\ (i <= max_instances /\ m > max_memories) =>
                             /\ bump_result' = "resource limit exceeded: memory count too high at "
                                                   \o ToString(m)
                             /\ UNCHANGED <<memory_count, table_count>>
                      /\ (i <= max_instances /\ m <= max_memories /\ t > max_tables) =>
                             /\ bump_result' = "resource limit exceeded: table count too high at "
                                                   \o ToString(t)
                             /\ UNCHANGED table_count
                      /\ (i <= max_instances /\ m <= max_memories /\ t <= max_tables) =>
                             /\ bump_result' = "Ok"
                             /\ instance_count' = i
                             /\ memory_count' = m
                             /\ table_count' = t
                      /\ ((instance_count + 1 > max_instances /\ max_instances < UsizeMax)
                            \/ (memory_count + memories > max_memories /\ max_memories < UsizeMax)
                            \/ (table_count + tables > max_tables /\ max_tables < UsizeMax))
                           => BumpFailed
         ]_vars

\* Modules have been counted up to the memory limit, and a later call has
\* failed on it after its instance was counted.
C20_Witness ==
    /\ bump_result = "resource limit exceeded: memory count too high at 3"
    /\ memory_count = 2
    /\ max_memories = 2
    /\ instance_count >= 3
    /\ table_count = 0

\* The step drops the last reference to the store.
StoreDropped == store_refs = 1 /\ store_refs' = 0

\* The deallocate calls owed to the instances in the store's list.
OwedDeallocations ==
    {[handle |-> instance_list[i].handle,
      allocator |-> IF instance_list[i].use_default_allocator
                    THEN "default_instance_allocator" ELSE "instance_allocator"] :
        i \in DOMAIN instance_list}

\* C21: when the last reference to the store is dropped every instance
\* that was added with add_instance is deallocated exactly once, by the
\* default instance allocator if it was added with use_default_allocator
\* and by the engine's configured allocator otherwise.
C21_InstancesDeallocatedOnce ==
    [][StoreDropped =>
          /\ BagToSet(deallocated') = BagToSet(deallocated) \cup OwedDeallocations
          /\ \A d \in OwedDeallocations : CopiesIn(d, deallocated') = 1
          /\ Cardinality(OwedDeallocations) = Len(instance_list)]_vars

\* The store was dropped with two instances in it, one of each allocator.
C21_Witness ==
    /\ store_refs = 0
    /\ [handle |-> 1, allocator |-> "default_instance_allocator"] \in BagToSet(deallocated)
    /\ [handle |-> 2, allocator |-> "instance_allocator"] \in BagToSet(deallocated)

\* C22: an instance created in a store is not deallocated until all
\* references to the store (its clones and every item that holds it) are
\* gone: while a reference remains after a step nothing is deallocated and
\* the instances list keeps every entry, and nothing brings back a store
\* whose references are gone.
C22_InstancesLiveWithStore ==
    /\ [](store_refs > 0 => deallocated = EmptyBag)
    /\ [][/\ (store_refs' > 0) =>
                 /\ deallocated' = deallocated
                 /\ Len(instance_list') >= Len(instance_list)
                 /\ \A i \in DOMAIN instance_list : instance_list'[i] = instance_list[i]
          /\ (store_refs = 0) => (store_refs' = 0)]_vars

\* An instance is in the store, the Store it was added through has been
\* dropped, and the handle of the instance still holds the store.
C22_Witness ==
    /\ store_refs = 1
    /\ Len(instance_list) = 2
    /\ upgraded = "Some"
    /\ deallocated = EmptyBag

\* What refers to the code of module id: its CompiledModule, the instances
\* made from it, and the store that registered it.
CodeHolders(id) ==
    (IF id \in compiled THEN 1 ELSE 0)
    + Cardinality({i \in DOMAIN instance_list : instance_list[i].code = id})
    + (IF id \in modules THEN 1 ELSE 0)

\* C23: the code memory of a module is unmapped exactly once, when the
\* last reference to it is dropped, which is only after the CompiledModule,
\* every instance made from it and the store that registered it are gone;
\* no live instance and no frame information of a store refers to unmapped
\* code.
C23_CodeUnmappedLast ==
    /\ [](\A id \in DOMAIN unmapped :
             /\ unmapped[id] <= 1
             /\ (unmapped[id] = 1) <=> (CodeHolders(id) = 0)
             /\ (unmapped[id] = 1) =>
                    /\ id \notin compiled
                    /\ \A i \in DOMAIN instance_list : instance_list[i].code # id
                    /\ id \notin modules
                    /\ ~BagIn(id, frame_info))
    /\ [][\A id \in DOMAIN unmapped : unmapped'[id] >= unmapped[id]]_vars

\* The code of a module whose CompiledModule was dropped first is unmapped
\* when the store that registered it, and held an instance of it, drops.
C23_Witness ==
    /\ "trap_return" \in DOMAIN unmapped
    /\ unmapped["trap_return"] = 1
    /\ store_refs = 0
    /\ \E d \in BagToSet(deallocated) : d.handle = 1
    /\ "start_import" \in compiled

\* C24: no byte of a code range is written after the range is published:
\* the copy of the object, link_module and patch_loadable_file are done
\* before publish, and nothing done with the CompiledModule afterwards
\* (instantiate, to_compilation_artifacts) changes the published image.
C24_NoWriteAfterPublish ==
    /\ [](\A key \in DOMAIN images :
             images[key].published =>
                 \E artifacts \in SourceArtifacts :
                     images[key].bytes = patch_loadable_file(link_module(artifacts.obj)))
    /\ [][\A key \in DOMAIN images :
              images[key].published =>
                  /\ key \in DOMAIN images'
                  /\ images'[key] = images[key]]_vars

\* Artifacts were extracted from a module with a relocation in its
\* published image, and an instance of it was made.
C24_Witness ==
    /\ extracted # NoArtifacts
    /\ extracted.of = 1
    /\ images[1].published
    /\ \E i \in DOMAIN images[1].bytes : images[1].bytes[i] = "abs"
    /\ code_refs[1] = 2

\* C25: publish is called before any address of the code memory can be
\* invoked: every function and trampoline address a CompiledModule
\* exposes lies in published memory, and from_artifacts returns no
\* CompiledModule whose code memory is unpublished.
C25_ExposedCodeIsPublished ==
    \A key \in DOMAIN built :
        /\ images[key].published
        /\ \A i \in DOMAIN built[key].finished_functions :
               built[key].finished_functions[i] \in DOMAIN images[key].bytes
        /\ \A i \in DOMAIN built[key].trampolines :
               built[key].trampolines[i] \in DOMAIN images[key].bytes

\* from_artifacts has returned a module with a function and two
\* trampolines.
C25_Witness ==
    /\ from_artifacts_result = "Ok"
    /\ 1 \in compiled
    /\ Len(built[1].finished_functions) = 1
    /\ Len(built[1].trampolines) = 2

\* The from_artifacts call whose code memory has key has returned an error.
Failed(key) ==
    /\ key \notin DOMAIN built
    /\ building # NoBuild => building.key # key

\* C26: on every path through from_artifacts the code memory that was
\* allocated is released exactly once: at once when build_code_memory
\* fails in allocation, linking or patching or when the ELF check for
\* debug_info fails, and on success only when the ModuleCode is dropped
\* with its last reference; it is never leaked and never freed twice.
C26_CodeMemoryReleasedOnce ==
    \A key \in DOMAIN unmapped :
        /\ unmapped[key] <= 1
        /\ Failed(key) => unmapped[key] = 1
        /\ (building # NoBuild /\ building.key = key) => unmapped[key] = 0
        /\ key \in DOMAIN built => (unmapped[key] = 1 <=> code_refs[key] = 0)

\* One from_artifacts has failed in the ELF check, after its code memory
\* was published, and one has succeeded and its module has been dropped.
C26_Witness ==
    /\ from_artifacts_result = "Debug information error"
    /\ 1 \in DOMAIN built
    /\ unmapped[1] = 1
    /\ 2 \in DOMAIN images
    /\ images[2].published
    /\ unmapped[2] = 1

\* The CompiledModule of key was made from artifacts extracted from another.
Reloaded(key) == built[key].of # 0

CalleeCalled == call_state.at \in {"running", "returned"} /\ Len(call_state.called) > 0

\* C28: for a signature (vmctx, caller_vmctx, p2 .. p(k-1)) with results
\* r0 .. r(m-1), the trampoline make_trampoline builds passes its own
\* first two parameters as callee arguments 0 and 1, loads callee argument
\* i >= 2 from values_vec at byte offset (i-2)*value_size, calls the
\* callee address once, and stores result j at byte offset j*value_size
\* of the same buffer.
C28_TrampolineMarshalsValues ==
    LET k == Len(call_state.signature.params)
        m == Len(call_state.signature.results)
        size == call_state.value_size
    IN  /\ Len(call_state.called) <= 1
        /\ CalleeCalled =>
              /\ call_state.called = <<[val |-> "param", n |-> 2]>>
              /\ Len(call_state.callee_args) = k
              /\ call_state.callee_args[1] = [val |-> "param", n |-> 0]
              /\ call_state.callee_args[2] = [val |-> "param", n |-> 1]
              /\ \A i \in 2 .. k - 1 :
                     call_state.callee_args[i + 1] = [val |-> "arg", n |-> (i - 2) * size]
        /\ call_state.at = "returned" =>
              /\ CalleeCalled
              /\ \A o \in DOMAIN call_state.values_vec :
                     call_state.values_vec[o] =
                        IF \E j \in 0 .. m - 1 : o = j * size
                        THEN [val |-> "ret", n |-> o \div size]
                        ELSE [val |-> "arg", n |-> o]
              /\ \A j \in 0 .. m - 1 : j * size \in DOMAIN call_state.values_vec

\* A trampoline for two buffer arguments and a result has returned.
C28_Witness ==
    /\ call_state.at = "returned"
    /\ Len(call_state.signature.params) = 4
    /\ Len(call_state.signature.results) = 1
    /\ call_state.value_size = 8

\* The event is a relocation against a libcall.
IsLibCall(event) == event.kind = "external" /\ event.name = "LibCall"

\* C29: compiling a trampoline yields only libcall relocations: a block,
\* constant or jump-table relocation, or an external relocation whose name
\* is not a libcall, panics instead of being recorded, so every relocation
\* make_trampoline returns has a LibCall target.
C29_OnlyLibCallRelocations ==
    /\ call_state.at \in {"running", "returned"} =>
          /\ \A r \in DOMAIN call_state.relocs :
                 call_state.relocs[r].reloc_target = "LibCall"
          /\ Len(call_state.relocs) = Len(call_state.events)
    /\ (\E e \in DOMAIN call_state.events : ~IsLibCall(call_state.events[e])) =>
          call_state.at = "panic"
    /\ \A index \in DOMAIN compile_state.trampoline_relocations :
           \A r \in DOMAIN compile_state.trampoline_relocations[index] :
               compile_state.trampoline_relocations[index][r].reloc_target = "LibCall"

\* Code generation reported a libcall relocation and then one against
\* another external name, and make_trampoline panicked.
C29_Witness ==
    /\ call_state.at = "panic"
    /\ Len(call_state.events) = 2
    /\ IsLibCall(call_state.events[1])
    /\ call_state.events[2] = [kind |-> "external", name |-> "User"]

\* C30: after a successful compile the trampolines map has exactly one
\* entry for each signature of the module, and the entry at SignatureIndex
\* i is the trampoline made for signature i, also when the module defines
\* no function; and in the maps build_code_memory makes, each trampoline
\* and each finished function is at the index the allocation gave for it.
C30_TrampolinePerSignature ==
    /\ compile_state.at = "Ok" =>
          LET sigs == compile_state.module.signatures
          IN  /\ Len(compile_state.trampolines) = Len(sigs)
              /\ \A i \in 0 .. Len(sigs) - 1 :
                     /\ compile_state.trampolines[i + 1].index = i
                     /\ compile_state.trampolines[i + 1].body =
                           TrampolineBody(sigs[i + 1], U128Size)
              /\ DOMAIN compile_state.trampoline_relocations \subseteq 0 .. Len(sigs) - 1
    /\ code_maps.at = "Ok" =>
          /\ Len(code_maps.trampolines) = Len(code_maps.module.signatures)
          /\ Len(code_maps.finished_functions) = code_maps.module.funcs
          /\ \A k \in DOMAIN code_maps.sigs :
                 code_maps.trampolines[code_maps.sigs[k].index + 1] = code_maps.sigs[k].ptr
          /\ \A k \in DOMAIN code_maps.funcs :
                 code_maps.finished_functions[code_maps.funcs[k].index
                                                - code_maps.module.imported + 1]
                     = code_maps.funcs[k].ptr

\* A module with two signatures and no function has been compiled.
C30_Witness ==
    /\ compile_state.at = "Ok"
    /\ Len(compile_state.module.signatures) = 2
    /\ compile_state.module.funcs = 0
    /\ Len(compile_state.trampolines) = 2

\* C38: if bump_resource_counts returns an error, instance_count,
\* memory_count and table_count all keep the values they had before the
\* call: a rejected instantiation consumes no quota.
C38_FailedBumpKeepsCounts ==
    [][BumpFailed => UNCHANGED <<instance_count, memory_count, table_count>>]_vars

\* The value fits an i64.
FitsI64(x) == x >= I64Min /\ x <= I64Max

\* add_fuel(fuel_u64) would overflow an i64 in the branch it takes when
\* the checked subtraction or addition fails: in consumed + adj, or in
\* taking i64::MAX from that sum.
AddFuelOverflows(adj, consumed, fuel_u64) ==
    LET fuel == IF fuel_u64 > I64Max THEN I64Max ELSE fuel_u64
    IN  /\ ~(FitsI64(consumed - fuel) /\ FitsI64(adj + fuel))
        /\ ~(FitsI64(consumed + adj) /\ FitsI64((consumed + adj) - I64Max))

\* C39: in every reachable state of a store that consumes fuel, fuel_adj
\* plus the fuel counter of VMInterrupts is not negative and fits an i64,
\* and no arithmetic of add_fuel overflows, whatever is added (values
\* above i64::MAX and repeated saturating calls included) and however
\* that is interleaved with wasm consuming fuel: fuel_consumed and
\* add_fuel never panic.
C39_FuelArithmeticInRange ==
    consume_fuel =>
        /\ fuel_adj + interrupts_fuel_consumed >= 0
        /\ fuel_adj + interrupts_fuel_consumed <= I64Max
        /\ FitsI64(fuel_adj)
        /\ FitsI64(interrupts_fuel_consumed)
        /\ \A fuel \in FuelInputs :
               ~AddFuelOverflows(fuel_adj, interrupts_fuel_consumed, fuel)

\* Fuel was added until fuel_adj saturated, wasm has consumed some of it,
\* and the next add_fuel of the largest u64 takes the overflow branch.
C39_Witness ==
    /\ consume_fuel
    /\ fuel_adj = I64Max
    /\ interrupts_fuel_consumed < 0
    /\ fuel_adj + interrupts_fuel_consumed > 0
    /\ ~FitsI64(fuel_adj + I64Max)

\* C33: Store::interrupt_handle returns an InterruptHandle that shares the
\* store's VMInterrupts exactly when the store's Config is interruptable;
\* otherwise it returns an error and no handle exists, so that the flag of
\* a store that is not interruptable is never set.
C33_HandleOnlyWhenInterruptable ==
    /\ handle_result.kind = "Ok" =>
          interruptable /\ handle_result.interrupts = "store"
    /\ handle_result.kind = "Err" =>
          ~interruptable /\ handle_result.message = InterruptsDisabledMessage
    /\ ~interruptable => ~interrupted /\ ~irq_requested

\* A handle was handed out on an interruptable store and used while wasm
\* was running.
C33_Witness ==
    /\ interruptable
    /\ handle_result.kind = "Ok"
    /\ interrupted
    /\ pc = "wasm"

\* The step is a call of InterruptHandle::interrupt that is not already
\* pending.
InterruptCalled == irq_requested' /\ ~irq_requested

\* C34: a call of interrupt() from another thread, wherever it falls
\* between add_fuel, fuel_consumed and wasm consuming fuel, changes only
\* the interrupted flag: the fuel counter, fuel_adj, and with them
\* fuel_consumed(), and the rest of the store are as they would be without
\* the call, until the interrupt trap is delivered.
C34_InterruptLeavesFuel ==
    [][InterruptCalled =>
          /\ interrupted'
          /\ UNCHANGED <<is_async, interruptable, consume_fuel,
                         interrupts_fuel_consumed, fuel_adj, out_of_gas_behavior,
                         current_suspend, current_poll_cx, pc, wpc, future_alive,
                         blocking, resume_val, poll_result, result, meterVars>>
          /\ fuel_consumed' = fuel_consumed]_vars

\* The interrupt was requested while wasm had consumed part of the fuel
\* added, and is not yet delivered.
C34_Witness ==
    /\ irq_requested
    /\ interrupted
    /\ consume_fuel
    /\ pc = "wasm"
    /\ fuel_adj > 0
    /\ interrupts_fuel_consumed < 0
    /\ fuel_adj + interrupts_fuel_consumed > 0

\* The step drops a FiberFuture that was never polled.
DroppedUnpolled == pc = "created" /\ future_alive /\ ~future_alive'

\* C37: when the future of on_fiber is dropped before it was ever polled,
\* the wrapped function is never executed: the fiber is started once, with
\* the cancellation value, returns at the keep_going check without
\* entering wasm, and is done when drop returns, and current_suspend,
\* current_poll_cx and the fuel are as they were.
C37_DropBeforePollRunsNothing ==
    [][DroppedUnpolled =>
          /\ resume_val' = "Err"
          /\ pc' = "idle"
          /\ wpc = "none" /\ wpc' = "none"
          /\ UNCHANGED <<result, blocking, current_suspend, current_poll_cx,
                         interrupts_fuel_consumed, fuel_adj, out_of_gas_behavior,
                         interrupted>>]_vars

\* A future was dropped unpolled on a store that had run no call before.
C37_Witness ==
    /\ ~future_alive
    /\ pc = "idle"
    /\ resume_val = "Err"
    /\ result = "none"
    /\ wpc = "none"
    /\ current_suspend = "null"

\* The call is suspended in an out-of-gas yield.
YieldSuspended == pc = "suspended" /\ blocking.kind = "Yield"

\* The out-of-gas handler is invoked with an injection left.
YieldEvent ==
    /\ OutOfGasFires
    /\ out_of_gas_behavior.kind = "InjectFuel"
    /\ out_of_gas_behavior.injection_count > 0

\* The out-of-gas handler is invoked with no injection to make.
TrapEvent ==
    /\ OutOfGasFires
    /\ \/ out_of_gas_behavior.kind = "Trap"
       \/ out_of_gas_behavior.injection_count = 0

\* What every out-of-gas event does up to the resume of a yield: one
\* injection used up, the waker signalled, one suspension; a trap without
\* suspension when no injection is left; a trap and no fuel when the
\* future is dropped.
OutOfGasEvents ==
    /\ [](YieldSuspended => blocking.yielded /\ woken /\ poll_result = "Pending")
    /\ [][ /\ YieldEvent =>
                 /\ pc' = "suspended"
                 /\ blocking'.kind = "Yield"
                 /\ blocking'.fuel_to_inject = out_of_gas_behavior.fuel_to_inject
                 /\ out_of_gas_behavior' =
                       InjectFuel(out_of_gas_behavior.injection_count - 1,
                                  out_of_gas_behavior.fuel_to_inject)
                 /\ woken'
                 /\ poll_result' = "Pending"
                 /\ UNCHANGED <<fuel_adj, interrupts_fuel_consumed>>
           /\ TrapEvent =>
                 /\ pc' # "suspended"
                 /\ result' = OutOfGasMessage
                 /\ UNCHANGED <<out_of_gas_behavior, fuel_adj, interrupts_fuel_consumed>>
           /\ (YieldSuspended /\ ~woken') => pc' # "suspended"
           /\ (YieldSuspended /\ pc' = "wasm") =>
                 /\ resume_val' = "Ok"
                 /\ UNCHANGED out_of_gas_behavior
                 /\ fuel_consumed' = fuel_consumed
           /\ (YieldSuspended /\ DropStep) =>
                 /\ resume_val' = "Err"
                 /\ result' = DroppedMessage
                 /\ pc' = "idle"
                 /\ UNCHANGED <<out_of_gas_behavior, fuel_adj,
                                interrupts_fuel_consumed>> ]_vars

\* A yielded call is polled again and leaves the suspension.
YieldProgress == YieldSuspended ~> ~YieldSuspended

ContextNow == ContextOf(fiber_stack[1].fiber)

\* C35: current_suspend and current_poll_cx obey stack discipline: with no
\* fiber running both are null; while a fiber runs its function the cells
\* hold that fiber's Suspend and the Context of the poll in progress;
\* while block_on polls, both cells are null and block_on holds its own
\* fiber's Suspend and that Context; a suspended fiber still holds its own
\* Suspend; so that with nested and interleaved fibers no block_on ever
\* fails its assertions or suspends through the Suspend of another fiber,
\* and every exit (return, suspension, drop) leaves the cells as the
\* enclosing poll or block_on expects them.
C35_SuspendStackDiscipline ==
    /\ \A f \in DOMAIN fibers : fibers[f].at \notin {"panic", "undefined"}
    /\ \A f \in DOMAIN fibers :
           fibers[f].at \in {"polling", "suspended"} => fibers[f].suspend = f
    /\ \A f \in DOMAIN fibers :
           fibers[f].at \in {"new", "suspended", "done"} =>
               \A k \in DOMAIN fiber_stack : fiber_stack[k].fiber # f
    /\ IF fiber_stack = <<>>
       THEN current_suspend = "null" /\ current_poll_cx = "null"
       ELSE IF fibers[Top.fiber].at = "running"
            THEN current_suspend = Top.fiber /\ current_poll_cx = ContextNow
            ELSE /\ fibers[Top.fiber].at = "polling"
                 /\ current_suspend = "null"
                 /\ current_poll_cx = "null"
                 /\ fibers[Top.fiber].cx = ContextNow

\* Three fibers interleaved and nested: the first is suspended under the
\* executor, the second is suspended in a nested call that the future
\* polled by the third fiber's block_on started.
C35_Witness ==
    /\ DOMAIN fibers = {FiberName(1), FiberName(2), FiberName(3)}
    /\ \E f, g, h \in DOMAIN fibers :
          /\ fibers[f].at = "suspended" /\ fibers[f].owner = "executor"
          /\ fibers[g].at = "suspended" /\ fibers[g].owner = h
          /\ fibers[h].at = "polling"
          /\ Len(fiber_stack) = 1
          /\ Top.fiber = h
          /\ ContextNow = ContextOf(h)

\* The definition d stands in the way of defining item under the names at:
\* the same names and kind, and for a function the same signature, for a
\* global the same content type and mutability.
Clashes(d, at, item) ==
    /\ d.at = at
    /\ d.item.kind = item.kind
    /\ item.kind = "func" => d.item.ty = item.ty
    /\ item.kind = "global" =>
          d.item.content = item.content /\ d.item.mutability = item.mutability

\* C31: defining an item in a Linker fails exactly when an item of the same
\* kind and type key is already defined under the same (module, name): a
\* second function with the same signature, a second global with the same
\* content type and mutability, any second memory and any second table,
\* whatever their limits; a function with another signature or a global
\* with another content type or mutability is accepted under the same
\* name; and a rejected definition leaves the definitions as they were.
C31_DefineRejectsSameKey ==
    [][link_result'.call = "define" =>
       \A at \in LinkNames, item \in LinkItems :
          define(at, item) =>
              /\ link_result'.call = "define"
              /\ (link_result'.result = "Err") <=>
                    (\E d \in linker : Clashes(d, at, item))
              /\ link_result'.result = "Err" => linker' = linker
              /\ link_result'.result = "Ok" =>
                    linker' = linker \cup {[at |-> at, item |-> item]}
              /\ linked' = linked]_vars

\* Under one name the Linker holds two functions of different signatures,
\* and the last define, of one of them again, was rejected.
C31_Witness ==
    /\ link_result = [call |-> "define", result |-> "Err"]
    /\ \E d, e \in linker :
          /\ d.at = e.at
          /\ d.item.kind = "func"
          /\ e.item.kind = "func"
          /\ d.item.ty # e.item.ty

\* The Linker has no definition that matches the import: none under its
\* names with its kind and type.
NoMatchingDefinition(import) ==
    \A d \in linker :
        \/ d.at # import.at
        \/ d.item.kind # import.ty.kind
        \/ d.item.kind = "func" /\ d.item.ty # import.ty.ty
        \/ /\ d.item.kind = "global"
           /\ \/ d.item.content # import.ty.content
              \/ d.item.mutability # import.ty.mutability
        \/ d.item.kind \in {"memory", "table"} /\ d.item.min < import.ty.min

\* C32: Linker::instantiate returns an error and creates no instance
\* whenever the module imports a function, global, memory or table for
\* which no matching definition is registered in the Linker; the Linker
\* keeps its definitions.
C32_UndefinedImportFails ==
    /\ [](\A imports \in ImportSets :
              (\E import \in imports : NoMatchingDefinition(import)) =>
                  InstantiateResult(linker, imports) = "Err")
    /\ [][ /\ link_result'.call = "instantiate" =>
                 /\ linker' = linker
                 /\ link_result'.result = "Err" => linked' = linked
           /\ linked' # linked =>
                 link_result' = [call |-> "instantiate", result |-> "Ok"] ]_vars

\* An instantiate failed on a Linker that has a definition under a name,
\* with no instance created.
C32_Witness ==
    /\ link_result = [call |-> "instantiate", result |-> "Err"]
    /\ linked = 0
    /\ \E d \in linker : d.item.kind = "memory" /\ d.item.min = 1

\* C40: CompiledModule::instantiate registers every signature of the
\* module in the signature registry before it resolves the imports, and if
\* the resolution fails it returns that error without calling
\* InstanceHandle::new: an instance is created only in a call whose
\* imports all resolved, after every signature was registered.
C40_RegisterThenResolve ==
    /\ [](inst_call.at \in {"resolved", "returned"} =>
            /\ Len(inst_call.signatures) = Len(inst_call.module.signatures)
            /\ \A i \in DOMAIN inst_call.module.signatures :
                   /\ inst_call.signatures[i] \in DOMAIN signatures
                   /\ signatures[inst_call.signatures[i]].wasm =
                         inst_call.module.signatures[i]
            /\ (inst_call.result = "LinkError") <=>
                  (inst_call.at = "returned"
                     /\ ~(inst_call.module.imports \subseteq inst_call.resolver))
            /\ inst_call.at = "resolved" =>
                  inst_call.module.imports \subseteq inst_call.resolver)
    /\ [][(inst_call.at # "none" /\ inst_call'.created # inst_call.created) =>
            /\ inst_call.at = "resolved"
            /\ inst_call'.result = "Ok"
            /\ inst_call'.created = inst_call.created + 1
            /\ UNCHANGED signatures]_vars
    /\ [][(inst_call.at = "registering" /\ inst_call'.result = "LinkError") =>
            inst_call'.created = inst_call.created]_vars

\* After an instantiation that succeeded, a module with two signatures and
\* an import the resolver does not have was refused: both signatures are
\* registered and no second instance exists.
C40_Witness ==
    /\ inst_call.at = "returned"
    /\ inst_call.result = "LinkError"
    /\ Len(inst_call.module.signatures) = 2
    /\ inst_call.module.signatures[1] # inst_call.module.signatures[2]
    /\ Len(signatures) = 2
    /\ inst_call.created = 1

====
